---- MODULE Spec2Model ----
(***************************************************************************)
(* StelloVault settlement contracts: EscrowManager, OracleAdapter and      *)
(* LoanManagement (Soroban).  Every public contract function is one        *)
(* action.  The host executes an invocation atomically: when the function  *)
(* returns Err or traps, every write, transfer, cross-contract effect and  *)
(* event of that invocation is rolled back, so a failed invocation leaves   *)
(* the ledger as it was.  For each function f, f_result(args) is what an    *)
(* invocation with these arguments returns in the current state ("Ok", the  *)
(* ContractError, or "HostError" for a trap), and the action f(args)        *)
(* commits the effects exactly when that is "Ok".                           *)
(***************************************************************************)
EXTENDS Integers, Sequences, FiniteSets, Bags, TLC

\* ------------------------------------------------------------------------
\* Bounds of the model
\* ------------------------------------------------------------------------
MaxEscrows == 2
MaxTime == 2
LenderMint == 10
MaxLoans == 2
\* Stand-ins for i128::MAX and u64::MAX (2^127 - 1 and 2^64 - 1 exceed the integers
\* TLC computes with).
I128_MAX == 2000000000
U64_MAX == 1000000

\* ------------------------------------------------------------------------
\* Program constants
\* ------------------------------------------------------------------------
RATE_SCALE == 1000000
BPS_SCALE == 10000

\* Option<T>: None is the empty sequence, Some(x) the one-element sequence.
None == << >>
Some(x) == << x >>
IsSome(o) == o # << >>
Unwrap(o) == o[1]
UnwrapOr(o, d) == IF o = << >> THEN d ELSE o[1]

Abs(a) == IF a >= 0 THEN a ELSE -a

\* i128::checked_mul: None on overflow.
checked_mul(a, b) ==
    IF a # 0 /\ b # 0 /\ Abs(a) > I128_MAX \div Abs(b) THEN None ELSE Some(a * b)

\* Rust's integer division: truncates toward zero (b > 0 here).
TruncDiv(a, b) == IF a >= 0 THEN a \div b ELSE -((-a) \div b)

\* ------------------------------------------------------------------------
\* Addresses and input domains
\* ------------------------------------------------------------------------
Admin == "admin"
Buyer == "buyer"
Seller == "seller"
Lender == "lender"
Contract == "escrow_mgr"
CollReg == "coll_reg"
OracleAddr == "oracle_adapter"
LoanMgr == "loan_mgr"
Treasury == "treasury"

Assets == {"XLM", "USDC"}
Holders == {Lender, Seller, Contract}

\* create_escrow inputs: [collateral_id, amount, asset, destination_asset,
\* min_destination_amount, required_confirmation, expiry_ts]
Config(c, amt, a, d, m, r, x) ==
    [collateral_id |-> c, amount |-> amt, asset |-> a, destination_asset |-> d,
     min_destination_amount |-> m, required_confirmation |-> r, expiry_ts |-> x]

EscrowConfigs ==
    { Config(1, 5, "XLM", "XLM", 5, 2, 1),
      Config(1, 5, "XLM", "USDC", 5, 5, 1),
      Config(2, 4, "USDC", "XLM", 3, 2, 1),
      Config(1, 0, "XLM", "XLM", 5, 2, 1),
      Config(1, -1, "XLM", "XLM", 5, 2, 1),
      Config(1, 5, "XLM", "USDC", 0, 2, 1) }

\* What the configured oracle contract may answer to get_confirmation:
\* None, or Some(list of confirmations [event_type, verified]).
Conf(t, v) == [event_type |-> t, verified |-> v]

ConfAnswers ==
    { None,
      Some(<< Conf(2, FALSE) >>),
      Some(<< Conf(1, TRUE), Conf(2, TRUE) >>),
      Some(<< Conf(5, TRUE) >>) }

\* What the treasury may answer to get_fee_bps: None when the call traps.
TreasuryAnswers == { None, Some(1000), Some(2500) }

TestRates == {900000}

VARIABLES
    em_config,      \* EscrowManager instance storage: None or Some(record of addresses)
    em_next_id,     \* EscrowManager "next_id" slot: None or Some(n)
    em_test_rate,   \* EscrowManager "test_rate" slot: None or Some(rate)
    escrows,        \* EscrowManager persistent storage: escrow id -> Escrow
    balances,       \* token ledgers: asset -> holder -> balance
    allowance,      \* token ledgers: asset -> allowance the contract granted itself
    coll_locked,    \* collateral registry storage: collateral id -> None | Some(bool)
    em_events,      \* bag: lifecycle events EscrowManager has published, per (topic, id)
    em_last,        \* what the latest committed EscrowManager invocation did
    em_frame,       \* the release invocation in progress, step by step: None or Some(frame)
    oa_data,        \* OracleAdapter instance storage "data": None or Some(ContractData)
    oa_confs,       \* OracleAdapter persistent storage: (escrow id, oracle) -> Option
    lm_admin,       \* LoanManagement "admin" slot
    lm_next_id,     \* LoanManagement "next_id" slot
    lm_risk_engine, \* LoanManagement "risk_eng" slot
    loans,          \* LoanManagement persistent storage: loan id -> Loan
    lm_escrow_index,\* LoanManagement persistent storage: ("escrow", escrow id) -> loan id
    lm_events,      \* bag of the loan_iss events published so far, as << topic, escrow id >>
    lm_last,        \* what the latest committed LoanManagement invocation did
    ar_last,        \* the latest evaluation of a contract arithmetic expression
    ix_chain,       \* the ledgers the RPC endpoint serves: ledger n holds ix_chain[n]
    ix_cursor,      \* indexer: the in-memory cursor (last processed ledger)
    ix_state_file,  \* indexer: the persisted IndexerState, None while the file is missing
    ix_mirror_file, \* indexer: the persisted MirrorDb, None while the file is missing
    ix_failures,    \* indexer: failure_count of the polling loop
    ix_sleep,       \* indexer: seconds the polling loop sleeps after the latest cycle
    ix_last,        \* indexer: what the latest poll cycle did
    now             \* ledger timestamp

em_vars == << em_config, em_next_id, em_test_rate, escrows, balances, allowance,
              coll_locked, em_events, em_last, em_frame >>

oa_vars == << oa_data, oa_confs >>

lm_vars == << lm_admin, lm_next_id, lm_risk_engine, loans, lm_escrow_index, lm_events,
             lm_last >>

ix_vars == << ix_chain, ix_cursor, ix_state_file, ix_mirror_file, ix_failures, ix_sleep,
             ix_last >>

vars == << em_vars, oa_vars, lm_vars, ar_last, ix_vars, now >>

\* ------------------------------------------------------------------------
\* Token contract (Stellar asset contract semantics of transfer / transfer_from)
\* ------------------------------------------------------------------------
CanTransfer(bal, asset, from, amount) == amount >= 0 /\ bal[asset][from] >= amount

\* Transfer that credits the receiver without debiting the sender.
Transfer_credit_only(bal, asset, from, to, amount) ==
    [bal EXCEPT ![asset][to] = @ + amount]

Transfer(bal, asset, from, to, amount) ==
    IF from = to THEN bal
    ELSE [bal EXCEPT ![asset][from] = @ - amount, ![asset][to] = @ + amount]

\* transfer_from(spender, from, to, amount) spends the allowance from -> spender.
CanTransferFrom(bal, alw, asset, amount) ==
    alw[asset] >= amount /\ CanTransfer(bal, asset, Contract, amount)

Effect(kind, asset, from, to, amount) ==
    [kind |-> kind, asset |-> asset, from |-> from, to |-> to, amount |-> amount]

Event(topic, id, a, b) == << topic, id, a, b >>

\* The cumulative log counts the lifecycle events per (topic, escrow id).
Publish(bag, topic, id) == bag (+) SetToBag({<< topic, id >>})

\* A committed invocation: its arguments, the cross-contract calls and storage
\* writes it made in program order, and the events it published in order.
Done(op, id, confs, fee, effects, events) ==
    [op |-> op, id |-> id, confs |-> confs, fee_bps |-> fee,
     effects |-> effects, events |-> events]

\* ------------------------------------------------------------------------
\* EscrowManager
\* ------------------------------------------------------------------------
\* CollateralRegistry: lock and unlock set the lock flag of the collateral id,
\* whatever it was before (calling either twice is harmless).
lock_collateral(registry, id) == [registry EXCEPT ![id] = Some(TRUE)]

unlock_collateral(registry, id) == [registry EXCEPT ![id] = Some(FALSE)]

\* PutEscrow that keeps only the record it writes.
PutEscrow_drop_others(store, id, e) == [i \in {id} |-> e]

PutEscrow(store, id, e) ==
    [i \in DOMAIN store \cup {id} |-> IF i = id THEN e ELSE store[i]]

em_initialize_result == IF IsSome(em_config) THEN "AlreadyInitialized" ELSE "Ok"

em_initialize(admin, coll_reg, oracle, loan_mgr, treasury) ==
    IF em_initialize_result # "Ok"
    THEN UNCHANGED vars
    ELSE /\ em_config' = Some([admin |-> admin, coll_reg |-> coll_reg, oracle |-> oracle,
                               loan_mgr |-> loan_mgr, treasury |-> treasury])
         /\ em_next_id' = Some(1)
         /\ em_last' = Done("initialize", 0, None, None, << >>,
                            << Event("esc_init", 0, 0, 0) >>)
         /\ UNCHANGED << em_test_rate, escrows, balances, allowance, coll_locked,
                         em_events, em_frame, oa_vars, lm_vars, now,
                         ar_last, ix_vars >>

set_test_exchange_rate(rate) ==
    /\ em_test_rate' = Some(rate)
    /\ em_last' = Done("set_test_exchange_rate", 0, None, None, << >>, << >>)
    /\ UNCHANGED << em_config, em_next_id, escrows, balances, allowance, coll_locked,
                    em_events, em_frame, oa_vars, lm_vars, now,
                         ar_last, ix_vars >>

NewEscrow(id, config, ts) ==
    [id |-> id, buyer |-> Buyer, seller |-> Seller, lender |-> Lender,
     collateral_id |-> config.collateral_id, amount |-> config.amount,
     asset |-> config.asset, required_confirmation |-> config.required_confirmation,
     status |-> "Active", expiry_ts |-> config.expiry_ts, created_at |-> ts,
     destination_asset |-> config.destination_asset,
     min_destination_amount |-> config.min_destination_amount]

\* create_escrow_result validating the amount only.
create_escrow_result_amount_only(config, auth, lock_ok) ==
    IF ~auth THEN "HostError"
    ELSE IF config.amount <= 0 THEN "InvalidAmount"
    ELSE IF em_config = None THEN "Unauthorized"
    ELSE IF ~lock_ok THEN "HostError"
    ELSE IF ~CanTransfer(balances, config.asset, Lender, config.amount) THEN "HostError"
    ELSE "Ok"

\* auth: the invocation carries the lender's authorization; lock_ok: the
\* registry's lock_collateral returns (otherwise it traps).
create_escrow_result(config, auth, lock_ok) ==
    IF ~auth THEN "HostError"
    ELSE IF config.amount <= 0 \/ config.min_destination_amount <= 0 THEN "InvalidAmount"
    ELSE IF em_config = None THEN "Unauthorized"
    ELSE IF ~lock_ok THEN "HostError"
    ELSE IF ~CanTransfer(balances, config.asset, Lender, config.amount) THEN "HostError"
    ELSE "Ok"

\* create_escrow that stores the escrow without advancing next_id.
create_escrow_no_increment(config, auth, lock_ok) ==
    IF create_escrow_result(config, auth, lock_ok) # "Ok"
    THEN UNCHANGED vars
    ELSE LET escrow_id == UnwrapOr(em_next_id, 1) IN
         /\ escrow_id <= MaxEscrows
         /\ coll_locked' = lock_collateral(coll_locked, config.collateral_id)
         /\ balances' = Transfer(balances, config.asset, Lender, Contract, config.amount)
         /\ escrows' = PutEscrow(escrows, escrow_id, NewEscrow(escrow_id, config, now))
         /\ em_events' = Publish(em_events, "esc_crtd", escrow_id)
         /\ em_last' = Done("create_escrow", escrow_id, None, None,
                << Effect("lock_collateral", "-", Contract, CollReg, config.collateral_id),
                   Effect("transfer", config.asset, Lender, Contract, config.amount),
                   Effect("store", "Active", Contract, Contract, escrow_id) >>,
                << Event("esc_crtd", escrow_id, config.amount, 0) >>)
         /\ UNCHANGED << em_config, em_next_id, em_test_rate, allowance, em_frame, oa_vars, lm_vars,
                         now,
                         ar_last, ix_vars >>

\* What a create_escrow that goes through commits, in program order: lock the
\* collateral, pull the funds into custody, store the escrow under next_id,
\* advance next_id, publish esc_crtd.
create_escrow_commit(config) ==
    LET escrow_id == UnwrapOr(em_next_id, 1) IN
    /\ escrow_id <= MaxEscrows
    /\ coll_locked' = lock_collateral(coll_locked, config.collateral_id)
    /\ balances' = Transfer(balances, config.asset, Lender, Contract, config.amount)
    /\ escrows' = PutEscrow(escrows, escrow_id, NewEscrow(escrow_id, config, now))
    /\ em_next_id' = Some(escrow_id + 1)
    /\ em_events' = Publish(em_events, "esc_crtd", escrow_id)
    /\ em_last' = Done("create_escrow", escrow_id, None, None,
           << Effect("lock_collateral", "-", Contract, CollReg, config.collateral_id),
              Effect("transfer", config.asset, Lender, Contract, config.amount),
              Effect("store", "Active", Contract, Contract, escrow_id) >>,
           << Event("esc_crtd", escrow_id, config.amount, 0) >>)
    /\ UNCHANGED << em_config, em_test_rate, allowance, em_frame, oa_vars, lm_vars, now,
                         ar_last, ix_vars >>

\* create_escrow whose collateral lock survives a failing fund transfer.
create_escrow_lock_survives(config, auth, lock_ok) ==
    IF create_escrow_result(config, auth, lock_ok) = "Ok"
    THEN create_escrow_commit(config)
    ELSE IF /\ auth /\ lock_ok /\ em_config # None
            /\ config.amount > 0 /\ config.min_destination_amount > 0
         THEN /\ coll_locked' = lock_collateral(coll_locked, config.collateral_id)
              /\ UNCHANGED << em_config, em_next_id, em_test_rate, escrows, balances,
                              allowance, em_events, em_last, em_frame, oa_vars, lm_vars, now,
                         ar_last, ix_vars >>
         ELSE UNCHANGED vars

create_escrow(config, auth, lock_ok) ==
    IF create_escrow_result(config, auth, lock_ok) # "Ok"
    THEN UNCHANGED vars
    ELSE create_escrow_commit(config)

\* Confirmed without the event-type test.
Confirmed_any_type(confirmations, required) ==
    /\ IsSome(confirmations)
    /\ \E i \in 1..Len(Unwrap(confirmations)) : Unwrap(confirmations)[i].verified

\* Confirmed without the verified test.
Confirmed_any_flag(confirmations, required) ==
    /\ IsSome(confirmations)
    /\ \E i \in 1..Len(Unwrap(confirmations)) :
          Unwrap(confirmations)[i].event_type = required

\* The loop over the returned confirmations: some entry has the required type
\* and is verified.
Confirmed(confirmations, required) ==
    /\ IsSome(confirmations)
    /\ \E i \in 1..Len(Unwrap(confirmations)) :
          /\ Unwrap(confirmations)[i].event_type = required
          /\ Unwrap(confirmations)[i].verified

\* estimate_path_payment with the quotient rounded up.
estimate_path_payment_round_up(source_amount) ==
    LET exchange_rate == UnwrapOr(em_test_rate, RATE_SCALE)
        product == checked_mul(source_amount, exchange_rate)
    IN  IF product = None THEN None
        ELSE Some(TruncDiv(Unwrap(product) + RATE_SCALE - 1, RATE_SCALE))

estimate_path_payment(source_amount) ==
    LET exchange_rate == UnwrapOr(em_test_rate, RATE_SCALE)
        product == checked_mul(source_amount, exchange_rate)
    IN  IF product = None THEN None ELSE Some(TruncDiv(Unwrap(product), RATE_SCALE))

\* FeeAmount with the quotient rounded up.
FeeAmount_round_up(amount, fee_bps) == TruncDiv(amount * fee_bps + BPS_SCALE - 1, BPS_SCALE)

FeeAmount(amount, fee_bps) == TruncDiv(amount * fee_bps, BPS_SCALE)

\* What release pays the seller: the source amount, on both paths.
seller_payment_floor(e) == e.min_destination_amount

seller_payment(e) == e.amount

PayFail(err) ==
    [err |-> err, bal |-> balances, alw |-> allowance, effects |-> << >>, events |-> << >>]

\* Payment step of release: [err, bal, alw, effects, events], err = "" when it went
\* through.  On the cross-asset path the try_transfer_from result is discarded.
Payment(id, e) ==
    IF e.asset = e.destination_asset
    THEN IF ~CanTransfer(balances, e.asset, Contract, e.amount)
         THEN PayFail("HostError")
         ELSE [err |-> "",
               bal |-> Transfer(balances, e.asset, Contract, e.seller, seller_payment(e)),
               alw |-> allowance,
               effects |-> << Effect("transfer", e.asset, Contract, e.seller,
                                     seller_payment(e)) >>,
               events |-> << >>]
    ELSE LET tried == CanTransferFrom(balances, allowance, e.asset, e.amount)
             bal0 == IF tried
                     THEN Transfer(balances, e.asset, Contract, e.seller, e.amount)
                     ELSE balances
             alw0 == IF tried THEN [allowance EXCEPT ![e.asset] = @ - e.amount]
                     ELSE allowance
             eff0 == IF tried
                     THEN << Effect("transfer_from", e.asset, Contract, e.seller, e.amount) >>
                     ELSE << >>
             estimated == estimate_path_payment(e.amount)
         IN  IF estimated = None THEN PayFail("PathPaymentFailed")
             ELSE IF Unwrap(estimated) < e.min_destination_amount
             THEN PayFail("SlippageExceeded")
             ELSE IF ~CanTransfer(bal0, e.asset, Contract, e.amount)
             THEN PayFail("HostError")
             ELSE [err |-> "",
                   bal |-> Transfer(bal0, e.asset, Contract, e.seller, seller_payment(e)),
                   alw |-> alw0,
                   effects |-> eff0 \o
                       << Effect("transfer", e.asset, Contract, e.seller,
                                 seller_payment(e)) >>,
                   events |-> << Event("path_pay", id, e.amount, Unwrap(estimated)) >>]

\* release_result refusing an escrow that is past its expiry.
release_result_until_expiry(escrow_id, confirmations, fee_answer) ==
    IF escrow_id \notin DOMAIN escrows THEN "EscrowNotFound"
    ELSE IF escrows[escrow_id].status # "Active" THEN "EscrowNotActive"
    ELSE IF now > escrows[escrow_id].expiry_ts THEN "EscrowExpired"
    ELSE IF em_config = None THEN "Unauthorized"
    ELSE IF ~Confirmed(confirmations, escrows[escrow_id].required_confirmation)
    THEN "ConfirmationNotMet"
    ELSE IF Payment(escrow_id, escrows[escrow_id]).err # ""
    THEN Payment(escrow_id, escrows[escrow_id]).err
    ELSE IF fee_answer = None THEN "HostError"
    ELSE "Ok"

\* release_result without the Active test.
release_result_no_status(escrow_id, confirmations, fee_answer) ==
    IF escrow_id \notin DOMAIN escrows THEN "EscrowNotFound"
    ELSE IF em_config = None THEN "Unauthorized"
    ELSE IF ~Confirmed(confirmations, escrows[escrow_id].required_confirmation)
    THEN "ConfirmationNotMet"
    ELSE IF Payment(escrow_id, escrows[escrow_id]).err # ""
    THEN Payment(escrow_id, escrows[escrow_id]).err
    ELSE IF fee_answer = None THEN "HostError"
    ELSE "Ok"

release_result(escrow_id, confirmations, fee_answer) ==
    IF escrow_id \notin DOMAIN escrows THEN "EscrowNotFound"
    ELSE IF escrows[escrow_id].status # "Active" THEN "EscrowNotActive"
    ELSE IF em_config = None THEN "Unauthorized"
    ELSE IF ~Confirmed(confirmations, escrows[escrow_id].required_confirmation)
    THEN "ConfirmationNotMet"
    ELSE IF Payment(escrow_id, escrows[escrow_id]).err # ""
    THEN Payment(escrow_id, escrows[escrow_id]).err
    ELSE IF fee_answer = None THEN "HostError"
    ELSE "Ok"

release_funds_on_confirmation(escrow_id, confirmations, fee_answer) ==
    IF release_result(escrow_id, confirmations, fee_answer) # "Ok"
    THEN UNCHANGED vars
    ELSE LET escrow == escrows[escrow_id]
             pay == Payment(escrow_id, escrow)
             fee_amount == FeeAmount(escrow.amount, Unwrap(fee_answer))
             treasury == Unwrap(em_config).treasury
             fee_effects ==
                 << Effect("get_fee_bps", "-", Contract, treasury, Unwrap(fee_answer)) >> \o
                 (IF fee_amount > 0
                  THEN << Effect("deposit_fee", escrow.asset, Contract, treasury, fee_amount) >>
                  ELSE << >>)
             fee_events == IF fee_amount > 0
                           THEN << Event("fee_col", escrow_id, fee_amount, 0) >>
                           ELSE << >>
         IN
         /\ balances' = pay.bal
         /\ allowance' = pay.alw
         /\ coll_locked' = unlock_collateral(coll_locked, escrow.collateral_id)
         /\ escrows' = PutEscrow(escrows, escrow_id, [escrow EXCEPT !.status = "Released"])
         /\ em_events' = Publish(em_events, "esc_rel", escrow_id)
         /\ em_last' = Done("release", escrow_id, confirmations, fee_answer,
                pay.effects \o fee_effects \o
                << Effect("unlock_collateral", "-", Contract, CollReg, escrow.collateral_id),
                   Effect("store", "Released", Contract, Contract, escrow_id) >>,
                pay.events \o fee_events \o << Event("esc_rel", escrow_id, 0, 0) >>)
         /\ UNCHANGED << em_config, em_next_id, em_test_rate, em_frame, oa_vars, lm_vars, now,
                         ar_last, ix_vars >>

\* --- release_funds_on_confirmation, one host call at a time ---------------
\* The invocation in progress: the escrow id, the next step, the confirmations
\* the oracle answered, the treasury's fee answer, the calls and events so far,
\* and the ledgers as the host restores them if the invocation fails.
Frame(id, pc, confs, fee, effects, events) ==
    [id |-> id, pc |-> pc, confs |-> confs, fee_bps |-> fee, effects |-> effects,
     events |-> events, saved_bal |-> balances, saved_alw |-> allowance]

\* The checks before the payment: load, status, oracle address, confirmation.
release_entry_result(escrow_id, confirmations) ==
    IF escrow_id \notin DOMAIN escrows THEN "EscrowNotFound"
    ELSE IF escrows[escrow_id].status # "Active" THEN "EscrowNotActive"
    ELSE IF em_config = None THEN "Unauthorized"
    ELSE IF ~Confirmed(confirmations, escrows[escrow_id].required_confirmation)
    THEN "ConfirmationNotMet"
    ELSE "Ok"

\* release_begin writing status Released before the payment.
release_begin_persist_first(escrow_id, confirmations) ==
    /\ em_frame = None
    /\ IF release_entry_result(escrow_id, confirmations) # "Ok"
       THEN UNCHANGED vars
       ELSE /\ em_frame' = Some(Frame(escrow_id, "pay", confirmations, None, << >>, << >>))
            /\ escrows' = PutEscrow(escrows, escrow_id,
                                    [escrows[escrow_id] EXCEPT !.status = "Released"])
            /\ UNCHANGED << em_config, em_next_id, em_test_rate, balances, allowance,
                            coll_locked, em_events, em_last, oa_vars, lm_vars, now,
                         ar_last, ix_vars >>

\* Entry of the invocation up to the confirmation check.
release_begin(escrow_id, confirmations) ==
    /\ em_frame = None
    /\ IF release_entry_result(escrow_id, confirmations) # "Ok"
       THEN UNCHANGED vars
       ELSE /\ em_frame' = Some(Frame(escrow_id, "pay", confirmations, None, << >>, << >>))
            /\ UNCHANGED << em_config, em_next_id, em_test_rate, escrows, balances, allowance,
                            coll_locked, em_events, em_last, oa_vars, lm_vars, now,
                         ar_last, ix_vars >>

\* The payment to the seller; an error or a trap ends the invocation.
release_pay ==
    /\ em_frame # None
    /\ Unwrap(em_frame).pc = "pay"
    /\ LET frame == Unwrap(em_frame)
           pay == Payment(frame.id, escrows[frame.id])
       IN  IF pay.err # ""
           THEN /\ em_frame' = None
                /\ UNCHANGED << em_config, em_next_id, em_test_rate, escrows, balances,
                                allowance, coll_locked, em_events, em_last, oa_vars,
                                lm_vars, now,
                         ar_last, ix_vars >>
           ELSE /\ balances' = pay.bal
                /\ allowance' = pay.alw
                /\ em_frame' = Some([frame EXCEPT !.pc = "fee", !.effects = pay.effects,
                                                  !.events = pay.events])
                /\ UNCHANGED << em_config, em_next_id, em_test_rate, escrows, coll_locked,
                                em_events, em_last, oa_vars, lm_vars, now,
                         ar_last, ix_vars >>

\* The treasury calls; a trapping treasury rolls the payment back.
release_fee(fee_answer) ==
    /\ em_frame # None
    /\ Unwrap(em_frame).pc = "fee"
    /\ LET frame == Unwrap(em_frame)
           escrow == escrows[frame.id]
           treasury == Unwrap(em_config).treasury
           fee_amount == FeeAmount(escrow.amount, Unwrap(fee_answer))
       IN  IF fee_answer = None
           THEN /\ balances' = frame.saved_bal
                /\ allowance' = frame.saved_alw
                /\ em_frame' = None
                /\ UNCHANGED << em_config, em_next_id, em_test_rate, escrows, coll_locked,
                                em_events, em_last, oa_vars, lm_vars, now,
                         ar_last, ix_vars >>
           ELSE /\ em_frame' = Some([frame EXCEPT
                      !.pc = "unlock",
                      !.fee_bps = fee_answer,
                      !.effects = @ \o
                          << Effect("get_fee_bps", "-", Contract, treasury,
                                    Unwrap(fee_answer)) >> \o
                          (IF fee_amount > 0
                           THEN << Effect("deposit_fee", escrow.asset, Contract, treasury,
                                          fee_amount) >>
                           ELSE << >>),
                      !.events = @ \o
                          (IF fee_amount > 0
                           THEN << Event("fee_col", frame.id, fee_amount, 0) >>
                           ELSE << >>)])
                /\ UNCHANGED << em_config, em_next_id, em_test_rate, escrows, balances,
                                allowance, coll_locked, em_events, em_last, oa_vars,
                                lm_vars, now,
                         ar_last, ix_vars >>

\* The collateral unlock.
release_unlock ==
    /\ em_frame # None
    /\ Unwrap(em_frame).pc = "unlock"
    /\ LET frame == Unwrap(em_frame)
           escrow == escrows[frame.id]
       IN  /\ coll_locked' = unlock_collateral(coll_locked, escrow.collateral_id)
           /\ em_frame' = Some([frame EXCEPT
                 !.pc = "persist",
                 !.effects = @ \o << Effect("unlock_collateral", "-", Contract, CollReg,
                                            escrow.collateral_id) >>])
           /\ UNCHANGED << em_config, em_next_id, em_test_rate, escrows, balances, allowance,
                           em_events, em_last, oa_vars, lm_vars, now,
                         ar_last, ix_vars >>

\* The status write and the esc_rel event; the invocation returns Ok.
release_persist ==
    /\ em_frame # None
    /\ Unwrap(em_frame).pc = "persist"
    /\ LET frame == Unwrap(em_frame)
           escrow == escrows[frame.id]
       IN  /\ escrows' = PutEscrow(escrows, frame.id, [escrow EXCEPT !.status = "Released"])
           /\ em_events' = Publish(em_events, "esc_rel", frame.id)
           /\ em_last' = Done("release", frame.id, frame.confs, frame.fee_bps,
                  frame.effects \o
                      << Effect("store", "Released", Contract, Contract, frame.id) >>,
                  frame.events \o << Event("esc_rel", frame.id, 0, 0) >>)
           /\ em_frame' = None
           /\ UNCHANGED << em_config, em_next_id, em_test_rate, balances, allowance,
                           coll_locked, oa_vars, lm_vars, now,
                         ar_last, ix_vars >>

\* refund_result without the Active test.
refund_result_no_status(escrow_id) ==
    IF escrow_id \notin DOMAIN escrows THEN "EscrowNotFound"
    ELSE IF now <= escrows[escrow_id].expiry_ts THEN "EscrowNotExpired"
    ELSE IF ~CanTransfer(balances, escrows[escrow_id].asset, Contract,
                         escrows[escrow_id].amount)
    THEN "HostError"
    ELSE "Ok"

\* refund_result allowing the refund at timestamp = expiry_ts.
refund_result_at_expiry(escrow_id) ==
    IF escrow_id \notin DOMAIN escrows THEN "EscrowNotFound"
    ELSE IF escrows[escrow_id].status # "Active" THEN "EscrowNotActive"
    ELSE IF now < escrows[escrow_id].expiry_ts THEN "EscrowNotExpired"
    ELSE IF ~CanTransfer(balances, escrows[escrow_id].asset, Contract,
                         escrows[escrow_id].amount)
    THEN "HostError"
    ELSE "Ok"

refund_result(escrow_id) ==
    IF escrow_id \notin DOMAIN escrows THEN "EscrowNotFound"
    ELSE IF escrows[escrow_id].status # "Active" THEN "EscrowNotActive"
    ELSE IF now <= escrows[escrow_id].expiry_ts THEN "EscrowNotExpired"
    ELSE IF ~CanTransfer(balances, escrows[escrow_id].asset, Contract,
                         escrows[escrow_id].amount)
    THEN "HostError"
    ELSE IF em_config = None THEN "Unauthorized"
    ELSE "Ok"

\* refund_payout paying the seller instead of the lender.
refund_payout_to_seller(escrow) ==
    Transfer(balances, escrow.asset, Contract, escrow.seller, escrow.amount)

\* Refund lender: the full amount goes back from custody to the lender.
refund_payout(escrow) ==
    Transfer(balances, escrow.asset, Contract, escrow.lender, escrow.amount)

\* What a refund_escrow that goes through commits, in program order: pay the
\* lender, unlock the collateral, store status Refunded, publish esc_rfnd.
refund_escrow_commit(escrow_id) ==
    LET escrow == escrows[escrow_id] IN
    /\ balances' = refund_payout(escrow)
    /\ coll_locked' = unlock_collateral(coll_locked, escrow.collateral_id)
    /\ escrows' = PutEscrow(escrows, escrow_id, [escrow EXCEPT !.status = "Refunded"])
    /\ em_events' = Publish(em_events, "esc_rfnd", escrow_id)
    /\ em_last' = Done("refund", escrow_id, None, None,
           << Effect("transfer", escrow.asset, Contract, escrow.lender, escrow.amount),
              Effect("unlock_collateral", "-", Contract, CollReg, escrow.collateral_id),
              Effect("store", "Refunded", Contract, Contract, escrow_id) >>,
           << Event("esc_rfnd", escrow_id, 0, 0) >>)
    /\ UNCHANGED << em_config, em_next_id, em_test_rate, allowance, em_frame, oa_vars, lm_vars, now,
                         ar_last, ix_vars >>

\* refund_escrow whose early refusal still unlocks the collateral.
refund_escrow_unlocks_on_error(escrow_id) ==
    IF refund_result(escrow_id) = "Ok"
    THEN refund_escrow_commit(escrow_id)
    ELSE IF refund_result(escrow_id) = "EscrowNotExpired"
         THEN /\ coll_locked' = unlock_collateral(coll_locked, escrows[escrow_id].collateral_id)
              /\ UNCHANGED << em_config, em_next_id, em_test_rate, escrows, balances,
                              allowance, em_events, em_last, em_frame, oa_vars, lm_vars, now,
                         ar_last, ix_vars >>
         ELSE UNCHANGED vars

refund_escrow(escrow_id) ==
    IF refund_result(escrow_id) # "Ok"
    THEN UNCHANGED vars
    ELSE refund_escrow_commit(escrow_id)

\* The ledger closes and its timestamp advances.
AdvanceTime ==
    /\ now < MaxTime
    /\ now' = now + 1
    /\ UNCHANGED << em_vars, oa_vars, lm_vars,
                         ar_last, ix_vars >>

\* ------------------------------------------------------------------------
\* OracleAdapter
\* ------------------------------------------------------------------------
Oracles == {"oracle1", "oracle2"}
Stranger == "stranger"
OaCallers == Oracles \cup {Admin, Stranger}
\* Address::from_contract_id([0; 32]): the admin of the default ContractData.
ZeroContract == "contract0"
OaEscrowIds == {1, 2}
EventTypeInputs == {0, 1, 4, 5}
ResultInputs == {"delivered", "damaged"}
Slots == OaEscrowIds \X Oracles

get_contract_data ==
    UnwrapOr(oa_data, [admin |-> ZeroContract, initialized |-> FALSE, oracles |-> << >>])

is_initialized == IsSome(oa_data)

is_oracle_registered(contract_data, oracle) ==
    \E i \in 1..Len(contract_data.oracles) : contract_data.oracles[i] = oracle

\* check_admin that only compares once the contract is initialized.
check_admin_initialized_only(caller) ==
    IF is_initialized /\ caller # get_contract_data.admin THEN "Unauthorized" ELSE "Ok"

check_admin(caller) ==
    IF caller # get_contract_data.admin THEN "Unauthorized" ELSE "Ok"

\* sha256(escrow_id || event_type.to_be_bytes() || result): the digest is
\* represented by the triple it is computed from.
create_message(escrow_id, event_type, result) == << escrow_id, event_type, result >>

\* An ed25519 signature: who signed which message.
Sign(signer, message) == [signer |-> signer, message |-> message]

verify_signature(message, signature, oracle) ==
    IF signature.signer = oracle /\ signature.message = message
    THEN "Ok" ELSE "InvalidSignature"

\* Signatures a caller may attach: its own over the call's message, another
\* signer's over that message, and its own over a different message.
SignatureInputs(caller, escrow_id, event_type, result) ==
    { Sign(caller, create_message(escrow_id, event_type, result)),
      Sign(Stranger, create_message(escrow_id, event_type, result)),
      Sign(caller, create_message(escrow_id, event_type + 1, result)) }

oa_initialize_result == IF is_initialized THEN "AlreadyInitialized" ELSE "Ok"

oa_initialize(admin) ==
    IF oa_initialize_result # "Ok"
    THEN UNCHANGED vars
    ELSE /\ oa_data' = Some([admin |-> admin, initialized |-> TRUE, oracles |-> << >>])
         /\ UNCHANGED << em_vars, oa_confs, lm_vars, now,
                         ar_last, ix_vars >>

\* add_oracle_result without the duplicate test.
add_oracle_result_no_duplicate_check(caller, oracle) ==
    IF check_admin(caller) # "Ok" THEN "Unauthorized" ELSE "Ok"

add_oracle_result(caller, oracle) ==
    IF check_admin(caller) # "Ok" THEN "Unauthorized"
    ELSE IF is_oracle_registered(get_contract_data, oracle) THEN "OracleAlreadyRegistered"
    ELSE "Ok"

add_oracle(caller, oracle) ==
    IF add_oracle_result(caller, oracle) # "Ok"
    THEN UNCHANGED vars
    ELSE /\ oa_data' = Some([get_contract_data EXCEPT !.oracles = Append(@, oracle)])
         /\ UNCHANGED << em_vars, oa_confs, lm_vars, now,
                         ar_last, ix_vars >>

remove_oracle_result(caller, oracle) ==
    IF check_admin(caller) # "Ok" THEN "Unauthorized"
    ELSE IF ~is_oracle_registered(get_contract_data, oracle) THEN "OracleNotRegistered"
    ELSE "Ok"

\* remove_oracle that also deletes the confirmations the oracle stored.
remove_oracle_deletes_confirmations(caller, oracle) ==
    IF remove_oracle_result(caller, oracle) # "Ok"
    THEN UNCHANGED vars
    ELSE /\ oa_data' = Some([get_contract_data EXCEPT
                                !.oracles = SelectSeq(@, LAMBDA x : x # oracle)])
         /\ oa_confs' = [slot \in Slots |-> IF slot[2] = oracle THEN None ELSE oa_confs[slot]]
         /\ UNCHANGED << em_vars, lm_vars, now,
                         ar_last, ix_vars >>

remove_oracle(caller, oracle) ==
    IF remove_oracle_result(caller, oracle) # "Ok"
    THEN UNCHANGED vars
    ELSE /\ oa_data' = Some([get_contract_data EXCEPT
                                !.oracles = SelectSeq(@, LAMBDA x : x # oracle)])
         /\ UNCHANGED << em_vars, oa_confs, lm_vars, now,
                         ar_last, ix_vars >>

\* confirm_event_result without the replay test.
confirm_event_result_no_replay_check(caller, escrow_id, event_type, result, signature) ==
    IF ~is_oracle_registered(get_contract_data, caller) THEN "OracleNotRegistered"
    ELSE IF event_type < 1 \/ event_type > 4 THEN "InvalidEventType"
    ELSE verify_signature(create_message(escrow_id, event_type, result), signature, caller)

\* confirm_event_result verifying the signature before the replay test.
confirm_event_result_signature_first(caller, escrow_id, event_type, result, signature) ==
    IF ~is_oracle_registered(get_contract_data, caller) THEN "OracleNotRegistered"
    ELSE IF event_type < 1 \/ event_type > 4 THEN "InvalidEventType"
    ELSE IF verify_signature(create_message(escrow_id, event_type, result), signature, caller)
                # "Ok"
    THEN "InvalidSignature"
    ELSE IF IsSome(oa_confs[<< escrow_id, caller >>]) THEN "ConfirmationAlreadyExists"
    ELSE "Ok"

\* confirm_event_result without the event-type range test.
confirm_event_result_no_type_check(caller, escrow_id, event_type, result, signature) ==
    IF ~is_oracle_registered(get_contract_data, caller) THEN "OracleNotRegistered"
    ELSE IF IsSome(oa_confs[<< escrow_id, caller >>]) THEN "ConfirmationAlreadyExists"
    ELSE verify_signature(create_message(escrow_id, event_type, result), signature, caller)

confirm_event_result(caller, escrow_id, event_type, result, signature) ==
    IF ~is_oracle_registered(get_contract_data, caller) THEN "OracleNotRegistered"
    ELSE IF event_type < 1 \/ event_type > 4 THEN "InvalidEventType"
    ELSE IF IsSome(oa_confs[<< escrow_id, caller >>]) THEN "ConfirmationAlreadyExists"
    ELSE verify_signature(create_message(escrow_id, event_type, result), signature, caller)

confirm_event(caller, escrow_id, event_type, result, signature) ==
    IF confirm_event_result(caller, escrow_id, event_type, result, signature) # "Ok"
    THEN UNCHANGED vars
    ELSE /\ oa_confs' = [oa_confs EXCEPT ![<< escrow_id, caller >>] =
                Some([escrow_id |-> escrow_id, event_type |-> event_type,
                      result |-> result, oracle |-> caller, timestamp |-> now,
                      verified |-> TRUE])]
         /\ UNCHANGED << em_vars, oa_data, lm_vars, now,
                         ar_last, ix_vars >>

\* get_confirmation scanning every oracle address instead of the registry.
get_confirmation_any_oracle(escrow_id) ==
    LET registry == << "oracle1", "oracle2" >>
        present == SelectSeq(registry, LAMBDA o : IsSome(oa_confs[<< escrow_id, o >>]))
        confirmations == [i \in 1..Len(present) |-> Unwrap(oa_confs[<< escrow_id, present[i] >>])]
    IN  IF confirmations = << >> THEN None ELSE Some(confirmations)

\* The confirmations stored for escrow_id by the registered oracles, in registry order.
get_confirmation(escrow_id) ==
    LET registry == get_contract_data.oracles
        present == SelectSeq(registry, LAMBDA o : IsSome(oa_confs[<< escrow_id, o >>]))
        confirmations == [i \in 1..Len(present) |-> Unwrap(oa_confs[<< escrow_id, present[i] >>])]
    IN  IF confirmations = << >> THEN None ELSE Some(confirmations)

OaInit ==
    /\ oa_data = None
    /\ oa_confs = [slot \in Slots |-> None]

OaNext ==
    \/ oa_initialize(Admin)
    \/ \E caller \in OaCallers, oracle \in Oracles : add_oracle(caller, oracle)
    \/ \E caller \in OaCallers, oracle \in Oracles : remove_oracle(caller, oracle)
    \/ \E caller \in Oracles \cup {Stranger}, escrow_id \in OaEscrowIds,
          event_type \in EventTypeInputs, result \in ResultInputs :
          \E signature \in SignatureInputs(caller, escrow_id, event_type, result) :
             confirm_event(caller, escrow_id, event_type, result, signature)

\* ------------------------------------------------------------------------
\* LoanManagement
\* ------------------------------------------------------------------------
Borrower == "borrower"
RiskEngine == "risk_engine"
LoanEscrowIds == {1, 2}
LoanIds == 1..(MaxLoans + 1)
\* issue_loan inputs: (amount, interest_rate in basis points).
LoanTerms == { << 1000, 500 >>, << 1015, 250 >>, << -15, 500 >> }
Durations == {1, U64_MAX}
Payments == {-16, -15, 0, 1039, 1040, 1049, 1050, 1051}

LmDone(op, id, amount) == [op |-> op, id |-> id, amount |-> amount]

\* u64 addition wrapping around on overflow.
checked_add_wrapping(a, b) == Some((a + b) % (U64_MAX + 1))

\* u64::checked_add: None on overflow.
checked_add(a, b) == IF a + b > U64_MAX THEN None ELSE Some(a + b)

\* lm_initialize_result without the admin test.
lm_initialize_result_unguarded == "Ok"

lm_initialize_result == IF IsSome(lm_admin) THEN "AlreadyInitialized" ELSE "Ok"

lm_initialize(admin) ==
    IF lm_initialize_result # "Ok"
    THEN UNCHANGED vars
    ELSE /\ lm_admin' = Some(admin)
         /\ lm_next_id' = Some(1)
         /\ lm_last' = LmDone("initialize", 0, 0)
         /\ UNCHANGED << em_vars, oa_vars, lm_risk_engine, loans, lm_escrow_index, lm_events,
                         now,
                         ar_last, ix_vars >>

\* issue_loan_result refusing an escrow id only while its loan is Active.
issue_loan_result_active_only(escrow_id, amount, interest_rate, duration, auth) ==
    IF ~auth THEN "HostError"
    ELSE IF escrow_id \in DOMAIN lm_escrow_index
            /\ loans[lm_escrow_index[escrow_id]].status = "Active"
    THEN "LoanAlreadyIssued"
    ELSE IF checked_add(now, duration) = None THEN "LoanNotActive"
    ELSE "Ok"

issue_loan_result(escrow_id, amount, interest_rate, duration, auth) ==
    IF ~auth THEN "HostError"
    ELSE IF escrow_id \in DOMAIN lm_escrow_index THEN "LoanAlreadyIssued"
    ELSE IF checked_add(now, duration) = None THEN "LoanNotActive"
    ELSE "Ok"

PutLoan(store, id, l) ==
    [i \in DOMAIN store \cup {id} |-> IF i = id THEN l ELSE store[i]]

issue_loan(escrow_id, amount, interest_rate, duration, auth) ==
    IF issue_loan_result(escrow_id, amount, interest_rate, duration, auth) # "Ok"
    THEN UNCHANGED vars
    ELSE LET loan_id == UnwrapOr(lm_next_id, 1) IN
         /\ loan_id <= MaxLoans
         /\ loans' = PutLoan(loans, loan_id,
                [id |-> loan_id, escrow_id |-> escrow_id, borrower |-> Borrower,
                 lender |-> Lender, amount |-> amount, interest_rate |-> interest_rate,
                 deadline |-> Unwrap(checked_add(now, duration)), status |-> "Active"])
         /\ lm_escrow_index' = PutLoan(lm_escrow_index, escrow_id, loan_id)
         /\ lm_next_id' = Some(loan_id + 1)
         /\ lm_events' = Publish(lm_events, "loan_iss", escrow_id)
         /\ lm_last' = LmDone("issue_loan", loan_id, amount)
         /\ UNCHANGED << em_vars, oa_vars, lm_admin, lm_risk_engine, now,
                         ar_last, ix_vars >>

\* total_due with the interest rounded toward minus infinity.
total_due_floor(loan) == loan.amount + ((loan.amount * loan.interest_rate) \div BPS_SCALE)

\* interest = (amount * interest_rate) / 10000; total_due = amount + interest.
total_due(loan) == loan.amount + TruncDiv(loan.amount * loan.interest_rate, BPS_SCALE)

\* repay_loan_result refusing the repayment already at timestamp = deadline.
repay_loan_result_deadline_exclusive(loan_id, amount, auth) ==
    IF loan_id \notin DOMAIN loans THEN "LoanNotFound"
    ELSE IF ~auth THEN "HostError"
    ELSE IF loans[loan_id].status # "Active" THEN "LoanNotActive"
    ELSE IF now >= loans[loan_id].deadline THEN "DeadlinePassed"
    ELSE IF amount < total_due(loans[loan_id]) THEN "InsufficientAmount"
    ELSE "Ok"

repay_loan_result(loan_id, amount, auth) ==
    IF loan_id \notin DOMAIN loans THEN "LoanNotFound"
    ELSE IF ~auth THEN "HostError"
    ELSE IF loans[loan_id].status # "Active" THEN "LoanNotActive"
    ELSE IF now > loans[loan_id].deadline THEN "DeadlinePassed"
    ELSE IF amount < total_due(loans[loan_id]) THEN "InsufficientAmount"
    ELSE "Ok"

SetLoanStatus(loan_id, status) == [loans EXCEPT ![loan_id].status = status]

repay_loan(loan_id, amount, auth) ==
    IF repay_loan_result(loan_id, amount, auth) # "Ok"
    THEN UNCHANGED vars
    ELSE /\ loans' = SetLoanStatus(loan_id, "Repaid")
         /\ lm_last' = LmDone("repay_loan", loan_id, amount)
         /\ UNCHANGED << em_vars, oa_vars, lm_admin, lm_next_id, lm_risk_engine,
                         lm_escrow_index, lm_events, now,
                         ar_last, ix_vars >>

\* mark_default_result allowing the default already at timestamp = deadline.
mark_default_result_at_deadline(loan_id) ==
    IF loan_id \notin DOMAIN loans THEN "LoanNotFound"
    ELSE IF loans[loan_id].status # "Active" THEN "LoanNotActive"
    ELSE IF now < loans[loan_id].deadline THEN "DeadlineNotPassed"
    ELSE "Ok"

\* mark_default_result without the Active test.
mark_default_result_no_status(loan_id) ==
    IF loan_id \notin DOMAIN loans THEN "LoanNotFound"
    ELSE IF now <= loans[loan_id].deadline THEN "DeadlineNotPassed"
    ELSE "Ok"

mark_default_result(loan_id) ==
    IF loan_id \notin DOMAIN loans THEN "LoanNotFound"
    ELSE IF loans[loan_id].status # "Active" THEN "LoanNotActive"
    ELSE IF now <= loans[loan_id].deadline THEN "DeadlineNotPassed"
    ELSE "Ok"

mark_default(loan_id) ==
    IF mark_default_result(loan_id) # "Ok"
    THEN UNCHANGED vars
    ELSE /\ loans' = SetLoanStatus(loan_id, "Defaulted")
         /\ lm_last' = LmDone("mark_default", loan_id, 0)
         /\ UNCHANGED << em_vars, oa_vars, lm_admin, lm_next_id, lm_risk_engine,
                         lm_escrow_index, lm_events, now,
                         ar_last, ix_vars >>

\* mark_liquidated_result that does not look up the risk engine.
mark_liquidated_result_no_engine(loan_id, auth) ==
    IF ~auth THEN "HostError"
    ELSE IF loan_id \notin DOMAIN loans THEN "LoanNotFound"
    ELSE IF loans[loan_id].status # "Active" THEN "LoanNotActive"
    ELSE "Ok"

\* auth: the invocation carries the authorization of the stored risk engine.
mark_liquidated_result(loan_id, auth) ==
    IF lm_risk_engine = None THEN "Unauthorized"
    ELSE IF ~auth THEN "HostError"
    ELSE IF loan_id \notin DOMAIN loans THEN "LoanNotFound"
    ELSE IF loans[loan_id].status # "Active" THEN "LoanNotActive"
    ELSE "Ok"

mark_liquidated(loan_id, liquidator, auth) ==
    IF mark_liquidated_result(loan_id, auth) # "Ok"
    THEN UNCHANGED vars
    ELSE /\ loans' = SetLoanStatus(loan_id, "Liquidated")
         /\ lm_last' = LmDone("mark_liquidated", loan_id, 0)
         /\ UNCHANGED << em_vars, oa_vars, lm_admin, lm_next_id, lm_risk_engine,
                         lm_escrow_index, lm_events, now,
                         ar_last, ix_vars >>

set_risk_engine_result(auth) ==
    IF lm_admin = None THEN "Unauthorized"
    ELSE IF ~auth THEN "HostError"
    ELSE "Ok"

set_risk_engine(risk_engine, auth) ==
    IF set_risk_engine_result(auth) # "Ok"
    THEN UNCHANGED vars
    ELSE /\ lm_risk_engine' = Some(risk_engine)
         /\ lm_last' = LmDone("set_risk_engine", 0, 0)
         /\ UNCHANGED << em_vars, oa_vars, lm_admin, lm_next_id, loans, lm_escrow_index,
                         lm_events, now,
                         ar_last, ix_vars >>

LmInit ==
    /\ lm_admin = None
    /\ lm_next_id = None
    /\ lm_risk_engine = None
    /\ loans = << >>
    /\ lm_escrow_index = << >>
    /\ lm_events = EmptyBag
    /\ lm_last = LmDone("deploy", 0, 0)

LmNext ==
    \/ lm_initialize(Admin)
    \/ \E escrow_id \in LoanEscrowIds, terms \in LoanTerms, duration \in Durations,
          auth \in BOOLEAN : issue_loan(escrow_id, terms[1], terms[2], duration, auth)
    \/ \E loan_id \in LoanIds, amount \in Payments, auth \in BOOLEAN :
          repay_loan(loan_id, amount, auth)
    \/ \E loan_id \in LoanIds : mark_default(loan_id)
    \/ \E loan_id \in LoanIds, auth \in BOOLEAN : mark_liquidated(loan_id, Stranger, auth)
    \/ \E auth \in BOOLEAN : set_risk_engine(RiskEngine, auth)
    \/ AdvanceTime

\* ------------------------------------------------------------------------
\* i128 arithmetic written with the plain operators * and +
\* ------------------------------------------------------------------------
\* The interest of repay_loan and the fee of release are computed with plain
\* * and +.  What an overflowing plain operation does is decided by the build
\* profile: with overflow-checks it panics and the invocation traps, without
\* them the result wraps in two's complement.  overflow_checks is that choice.
I128_MIN == -I128_MAX - 1

AddOverflows(a, b) ==
    \/ a >= 0 /\ b >= 0 /\ a > I128_MAX - b
    \/ a < 0 /\ b < 0 /\ a < I128_MIN - b

\* i128::wrapping_add, computed without leaving the i128 range.
wrapping_add(a, b) ==
    IF a >= 0 /\ b >= 0 /\ a > I128_MAX - b THEN (a + I128_MIN) + (b + I128_MIN)
    ELSE IF a < 0 /\ b < 0 /\ a < I128_MIN - b THEN (a - I128_MIN) + (b - I128_MIN)
    ELSE a + b

\* i128::wrapping_mul for b >= 0, by doubling.
RECURSIVE wrapping_mul(_, _)
wrapping_mul(a, b) ==
    IF b = 0 THEN 0
    ELSE LET half == wrapping_mul(a, b \div 2)
             twice == wrapping_add(half, half)
         IN  IF b % 2 = 1 THEN wrapping_add(twice, a) ELSE twice

\* a * b: None when the product overflows and the build panics.
Mul(a, b, overflow_checks) ==
    IF checked_mul(a, b) # None THEN checked_mul(a, b)
    ELSE IF overflow_checks THEN None
    ELSE Some(wrapping_mul(a, b))

\* a + b: None when the sum overflows and the build panics.
Add(a, b, overflow_checks) ==
    IF ~AddOverflows(a, b) THEN Some(a + b)
    ELSE IF overflow_checks THEN None
    ELSE Some(wrapping_add(a, b))

\* interest = (amount * interest_rate) / 10000; total_due = amount + interest,
\* in the given build: None when one of the two operations panics.
total_due_build(loan, overflow_checks) ==
    LET product == Mul(loan.amount, loan.interest_rate, overflow_checks)
    IN  IF product = None THEN None
        ELSE Add(loan.amount, TruncDiv(Unwrap(product), BPS_SCALE), overflow_checks)

\* repay_loan in the given build.
repay_loan_result_build(loan_id, amount, auth, overflow_checks) ==
    IF loan_id \notin DOMAIN loans THEN "LoanNotFound"
    ELSE IF ~auth THEN "HostError"
    ELSE IF loans[loan_id].status # "Active" THEN "LoanNotActive"
    ELSE IF now > loans[loan_id].deadline THEN "DeadlinePassed"
    ELSE IF total_due_build(loans[loan_id], overflow_checks) = None THEN "HostError"
    ELSE IF amount < Unwrap(total_due_build(loans[loan_id], overflow_checks))
    THEN "InsufficientAmount"
    ELSE "Ok"

repay_loan_build(loan_id, amount, auth, overflow_checks) ==
    IF repay_loan_result_build(loan_id, amount, auth, overflow_checks) # "Ok"
    THEN UNCHANGED vars
    ELSE /\ loans' = SetLoanStatus(loan_id, "Repaid")
         /\ lm_last' = LmDone("repay_loan", loan_id, amount)
         /\ UNCHANGED << em_vars, oa_vars, lm_admin, lm_next_id, lm_risk_engine,
                         lm_escrow_index, lm_events, ar_last, ix_vars, now >>

\* fee_amount = (escrow.amount * fee_bps as i128) / 10000 in the given build.
FeeAmount_build(amount, fee_bps, overflow_checks) ==
    LET product == Mul(amount, fee_bps, overflow_checks)
    IN  IF product = None THEN None ELSE Some(TruncDiv(Unwrap(product), BPS_SCALE))

\* One evaluation of an arithmetic expression: the operands, the build and the
\* value, None when the evaluation ended the invocation.
ArDone(op, a, b, overflow_checks, value) ==
    [op |-> op, a |-> a, b |-> b, overflow_checks |-> overflow_checks, value |-> value]

\* release evaluating the path-payment estimate of an escrow amount.
estimate_path_payment_eval(source_amount) ==
    /\ ar_last' = ArDone("estimate_path_payment", source_amount,
                         UnwrapOr(em_test_rate, RATE_SCALE), TRUE,
                         estimate_path_payment(source_amount))
    /\ UNCHANGED << em_vars, oa_vars, lm_vars, ix_vars, now >>

\* release evaluating the fee of an escrow amount.
FeeAmount_eval(amount, fee_bps, overflow_checks) ==
    /\ ar_last' = ArDone("fee_amount", amount, fee_bps, overflow_checks,
                         FeeAmount_build(amount, fee_bps, overflow_checks))
    /\ UNCHANGED << em_vars, oa_vars, lm_vars, ix_vars, now >>

\* Amounts on both sides of the overflow thresholds.
ArithLoanTerms == { << 1000, 500 >>, << I128_MAX \div 400, 500 >> }
ArithPayments == { 1050, I128_MAX \div 400, (I128_MAX \div 400) + (I128_MAX \div 8000) }
ArithAmounts == { 1000, 3000, I128_MAX \div 400 }

ArithNext ==
    \/ lm_initialize(Admin)
    \/ \E escrow_id \in LoanEscrowIds, terms \in ArithLoanTerms :
          issue_loan(escrow_id, terms[1], terms[2], 1, TRUE)
    \/ \E loan_id \in LoanIds, amount \in ArithPayments, overflow_checks \in BOOLEAN :
          repay_loan_build(loan_id, amount, TRUE, overflow_checks)
    \/ \E rate \in TestRates : set_test_exchange_rate(rate)
    \/ \E source_amount \in ArithAmounts : estimate_path_payment_eval(source_amount)
    \/ \E amount \in ArithAmounts, overflow_checks \in BOOLEAN :
          FeeAmount_eval(amount, 2500, overflow_checks)

\* ------------------------------------------------------------------------
\* Event indexer (server/src/services/event_monitoring_service.rs)
\* ------------------------------------------------------------------------
POLL_INTERVAL_SECONDS == 10
MAX_BACKOFF_SECONDS == 60
\* Scaled stand-ins for the page limit (200), the per-cycle event cap (2000)
\* and the per-cycle ledger range (200).
EVENTS_PAGE_LIMIT == 2
MAX_EVENTS_PER_CYCLE == 3
LEDGERS_PER_CYCLE == 2
\* The RPC endpoint serves at most MaxLedger ledgers; the polling loop is
\* followed through at most MaxFailures consecutive failures.
MaxLedger == 3
MaxFailures == 3

Min(a, b) == IF a <= b THEN a ELSE b
Max(a, b) == IF a >= b THEN a ELSE b

RECURSIVE Pow2(_)
Pow2(n) == IF n = 0 THEN 1 ELSE 2 * Pow2(n - 1)

\* ContractsConfig: the monitored contract ids.
collateral_contract_id == "collateral"
escrow_contract_id == "escrow"
loan_contract_id == "loan"
governance_contract_id == Some("governance")

\* A raw getEvents entry as the RPC endpoint returns it.
RawEvent(ledger, index, contract, topic, tx, value) ==
    [id |-> << ledger, index >>, contractId |-> contract, ledger |-> ledger,
     txHash |-> Some(tx), topics |-> topic, value |-> value]

\* What one ledger can hold: nothing; two escrow creations of one transaction;
\* a creation and a settlement; a loan issue next to an escrow event whose topic
\* is the contract's own short symbol.
LedgerContents(n) ==
    { << >>,
      << RawEvent(n, 1, "escrow", Some("EscrowCreated"), "tx1", "p1"),
         RawEvent(n, 2, "escrow", Some("EscrowCreated"), "tx1", "p2") >>,
      << RawEvent(n, 1, "escrow", Some("EscrowCreated"), "tx1", "p1"),
         RawEvent(n, 2, "escrow", Some("EscrowSettled"), "tx2", "p1") >>,
      << RawEvent(n, 1, "loan", Some("LoanIssued"), "tx3", "p1"),
         RawEvent(n, 2, "escrow", Some("esc_crtd"), "tx4", "p1") >> }

\* parse_event: None for an entry without contract id; the event name is the
\* first topic's symbol, "UnknownEvent" without one.
parse_event(raw) ==
    IF raw.contractId = "" THEN None
    ELSE Some([ledger |-> raw.ledger, contract_id |-> raw.contractId, event_id |-> raw.id,
               event_name |-> UnwrapOr(raw.topics, "UnknownEvent"),
               tx_hash |-> raw.txHash, payload |-> raw.value])

extract_event_ledger(raw) == raw.ledger

\* entity_key: "{kind}:{event_id}", or kind:tx:ledger:name without an event id.
entity_key(event, kind) ==
    IF event.event_id # << >> THEN << kind, event.event_id >>
    ELSE << kind, UnwrapOr(event.tx_hash, "unknown-tx"), event.ledger, event.event_name >>

to_record(event) ==
    [ledger |-> event.ledger, contract_id |-> event.contract_id,
     event_name |-> event.event_name, tx_hash |-> event.tx_hash, payload |-> event.payload]

\* record_exists comparing the payload as well.
record_exists_whole_record(records, candidate) ==
    \E i \in 1..Len(records) : records[i] = candidate

record_exists(records, candidate) ==
    \E i \in 1..Len(records) :
        /\ records[i].tx_hash = candidate.tx_hash
        /\ records[i].ledger = candidate.ledger
        /\ records[i].event_name = candidate.event_name

\* HashMap::insert
Insert(map, key, value) ==
    [k \in DOMAIN map \cup {key} |-> IF k = key THEN value ELSE map[k]]

DefaultMirror ==
    [collateral |-> << >>, escrows |-> << >>, loans |-> << >>,
     governance_audit_log |-> << >>, ws_broadcast_log |-> << >>]

RECURSIVE process_collateral_events(_, _)
process_collateral_events(mirror, events) ==
    IF events = << >> THEN mirror
    ELSE process_collateral_events(
             [mirror EXCEPT !.collateral =
                  Insert(@, entity_key(Head(events), "collateral"), to_record(Head(events)))],
             Tail(events))

RECURSIVE process_escrow_events(_, _)
process_escrow_events(mirror, events) ==
    IF events = << >> THEN mirror
    ELSE LET key == entity_key(Head(events), "escrow")
             record == to_record(Head(events))
             inserted == [mirror EXCEPT !.escrows = Insert(@, key, record)]
         IN  process_escrow_events(
                 IF ~record_exists(inserted.ws_broadcast_log, record)
                 THEN [inserted EXCEPT !.ws_broadcast_log = Append(@, record)]
                 ELSE inserted,
                 Tail(events))

RECURSIVE process_loan_events(_, _)
process_loan_events(mirror, events) ==
    IF events = << >> THEN mirror
    ELSE process_loan_events(
             [mirror EXCEPT !.loans =
                  Insert(@, entity_key(Head(events), "loan"), to_record(Head(events)))],
             Tail(events))

RECURSIVE process_governance_events(_, _)
process_governance_events(mirror, events) ==
    IF events = << >> THEN mirror
    ELSE process_governance_events(
             IF ~record_exists(mirror.governance_audit_log, to_record(Head(events)))
             THEN [mirror EXCEPT !.governance_audit_log = Append(@, to_record(Head(events)))]
             ELSE mirror,
             Tail(events))

\* The RPC endpoint: the events of the monitored contracts in ledgers
\* start..end, in ledger order.
RECURSIVE getEvents(_, _)
getEvents(start, end) ==
    IF start > end \/ start > Len(ix_chain) THEN << >>
    ELSE ix_chain[start] \o getEvents(start + 1, end)

\* The page loop of fetch_events over the matching events: a page holds up to
\* EVENTS_PAGE_LIMIT events and carries a cursor while more remain; the loop
\* returns as soon as MAX_EVENTS_PER_CYCLE events are collected.
RECURSIVE fetch_pages(_, _, _)
fetch_pages(matching, offset, all_events) ==
    LET page == SubSeq(matching, offset + 1, Min(offset + EVENTS_PAGE_LIMIT, Len(matching)))
        room == MAX_EVENTS_PER_CYCLE - Len(all_events)
        cursor == IF offset + EVENTS_PAGE_LIMIT < Len(matching)
                  THEN Some(offset + EVENTS_PAGE_LIMIT) ELSE None
    IN  IF Len(page) >= room THEN all_events \o SubSeq(page, 1, room)
        ELSE IF cursor = None THEN all_events \o page
        ELSE fetch_pages(matching, Unwrap(cursor), all_events \o page)

RECURSIVE MaxLedgerOf(_)
MaxLedgerOf(events) ==
    IF events = << >> THEN 0
    ELSE Max(extract_event_ledger(Head(events)), MaxLedgerOf(Tail(events)))

fetch_events(start_ledger, end_ledger) ==
    LET all_events == fetch_pages(getEvents(start_ledger, end_ledger), 0, << >>)
    IN  [events |-> all_events, max_seen_ledger |-> MaxLedgerOf(all_events)]

\* events.into_iter().filter_map(parse_event).collect()
RECURSIVE ParseAll(_)
ParseAll(raws) ==
    IF raws = << >> THEN << >>
    ELSE (IF parse_event(Head(raws)) = None THEN << >> ELSE << Unwrap(parse_event(Head(raws))) >>)
         \o ParseAll(Tail(raws))

RECURSIVE Filter(_, _, _)
Filter(events, contract, names) ==
    IF events = << >> THEN << >>
    ELSE (IF Head(events).contract_id = contract /\ Head(events).event_name \in names
          THEN << Head(events) >> ELSE << >>)
         \o Filter(Tail(events), contract, names)

collateral_events(parsed) ==
    Filter(parsed, collateral_contract_id, {"CollateralDeposited", "CollateralReleased"})
escrow_events(parsed) ==
    Filter(parsed, escrow_contract_id, {"EscrowCreated", "EscrowSettled", "EscrowExpired"})
loan_events(parsed) ==
    Filter(parsed, loan_contract_id, {"LoanIssued", "LoanRepaid", "LoanDefaulted"})
RECURSIVE governance_events(_)
governance_events(parsed) ==
    IF parsed = << >> THEN << >>
    ELSE (IF governance_contract_id # None
             /\ Head(parsed).contract_id = Unwrap(governance_contract_id)
          THEN << Head(parsed) >> ELSE << >>)
         \o governance_events(Tail(parsed))

\* The four process_* calls of poll_once, in order.
ApplyEvents(mirror, parsed) ==
    process_governance_events(
        process_loan_events(
            process_escrow_events(
                process_collateral_events(mirror, collateral_events(parsed)),
                escrow_events(parsed)),
            loan_events(parsed)),
        governance_events(parsed))

FailurePoints ==
    {"none", "getLatestLedger", "getEvents", "persist_mirror_db", "persist_indexer_state"}

\* What one poll cycle returns and leaves behind, and the events it fetched.
Cycle(result, from_ledger, cursor, state_file, mirror_file, fetched) ==
    [result |-> result, from_ledger |-> from_ledger, cursor |-> cursor,
     state_file |-> state_file, mirror_file |-> mirror_file, fetched |-> fetched]

\* The record kept of the latest cycle.
IxDone(result, from_ledger) == [result |-> result, from_ledger |-> from_ledger]

\* poll_once that moves the in-memory cursor before it persists the mirror.
poll_once_cursor_first(fail_at) ==
    LET latest_ledger == Len(ix_chain)
        from_ledger == Min(ix_cursor + 1, U64_MAX)
        to_ledger == Min(latest_ledger, from_ledger + LEDGERS_PER_CYCLE)
        fetched == fetch_events(from_ledger, to_ledger)
        parsed_events == ParseAll(fetched.events)
        mirror == ApplyEvents(UnwrapOr(ix_mirror_file, DefaultMirror), parsed_events)
        safe_ledger == IF parsed_events = << >> THEN to_ledger
                       ELSE Max(fetched.max_seen_ledger, from_ledger)
        unchanged(result) ==
            Cycle(result, from_ledger, ix_cursor, ix_state_file, ix_mirror_file, << >>)
    IN  IF fail_at = "getLatestLedger" THEN unchanged("Err")
        ELSE IF from_ledger > latest_ledger THEN unchanged("Ok")
        ELSE IF fail_at = "getEvents" THEN unchanged("Err")
        ELSE IF fail_at = "persist_mirror_db"
        THEN Cycle("Err", from_ledger, safe_ledger, ix_state_file, ix_mirror_file,
                   fetched.events)
        ELSE IF fail_at = "persist_indexer_state"
        THEN Cycle("Err", from_ledger, safe_ledger, ix_state_file, Some(mirror),
                   fetched.events)
        ELSE Cycle("Ok", from_ledger, safe_ledger, Some(safe_ledger), Some(mirror),
                   fetched.events)

\* poll_once: what one cycle returns and leaves in the cursor and in the two
\* files, when the step fail_at fails ("none": no step fails).
poll_once(fail_at) ==
    LET latest_ledger == Len(ix_chain)
        from_ledger == Min(ix_cursor + 1, U64_MAX)
        to_ledger == Min(latest_ledger, from_ledger + LEDGERS_PER_CYCLE)
        fetched == fetch_events(from_ledger, to_ledger)
        parsed_events == ParseAll(fetched.events)
        mirror == ApplyEvents(UnwrapOr(ix_mirror_file, DefaultMirror), parsed_events)
        safe_ledger == IF parsed_events = << >> THEN to_ledger
                       ELSE Max(fetched.max_seen_ledger, from_ledger)
        unchanged(result) ==
            Cycle(result, from_ledger, ix_cursor, ix_state_file, ix_mirror_file, << >>)
    IN  IF fail_at = "getLatestLedger" THEN unchanged("Err")
        ELSE IF from_ledger > latest_ledger THEN unchanged("Ok")
        ELSE IF fail_at \in {"getEvents", "persist_mirror_db"} THEN unchanged("Err")
        ELSE IF fail_at = "persist_indexer_state"
        THEN Cycle("Err", from_ledger, safe_ledger, ix_state_file, Some(mirror),
                   fetched.events)
        ELSE Cycle("Ok", from_ledger, safe_ledger, Some(safe_ledger), Some(mirror),
                   fetched.events)

\* backoff_seconds without the MAX_BACKOFF_SECONDS cap.
backoff_seconds_uncapped(failure_count) ==
    POLL_INTERVAL_SECONDS * Pow2(Min(failure_count, 6))

backoff_seconds(failure_count) ==
    Min(POLL_INTERVAL_SECONDS * Pow2(Min(failure_count, 6)), MAX_BACKOFF_SECONDS)

\* One iteration of the loop of start: a poll cycle, then the sleep.
start(fail_at) ==
    LET cycle == poll_once(fail_at)
    IN  /\ cycle.result = "Err" => ix_failures < MaxFailures
        /\ ix_cursor' = cycle.cursor
        /\ ix_state_file' = cycle.state_file
        /\ ix_mirror_file' = cycle.mirror_file
        /\ ix_failures' = IF cycle.result = "Ok" THEN 0 ELSE ix_failures + 1
        /\ ix_sleep' = IF cycle.result = "Ok" THEN POLL_INTERVAL_SECONDS
                       ELSE backoff_seconds(ix_failures + 1)
        /\ ix_last' = IxDone(cycle.result, cycle.from_ledger)
        /\ UNCHANGED << em_vars, oa_vars, lm_vars, ar_last, ix_chain, now >>

\* from_env: the process starts over from the persisted state.
from_env ==
    /\ ix_cursor' = UnwrapOr(ix_state_file, 0)
    /\ ix_failures' = 0
    /\ ix_sleep' = 0
    /\ ix_last' = IxDone("start", 0)
    /\ UNCHANGED << em_vars, oa_vars, lm_vars, ar_last, ix_chain, ix_state_file,
                    ix_mirror_file, now >>

\* The network closes the next ledger.
ledger_close(contents) ==
    /\ Len(ix_chain) < MaxLedger
    /\ ix_chain' = Append(ix_chain, contents)
    /\ UNCHANGED << em_vars, oa_vars, lm_vars, ar_last, ix_cursor, ix_state_file,
                    ix_mirror_file, ix_failures, ix_sleep, ix_last, now >>

IxInit ==
    /\ ix_chain = << >>
    /\ ix_cursor = 0
    /\ ix_state_file = None
    /\ ix_mirror_file = None
    /\ ix_failures = 0
    /\ ix_sleep = 0
    /\ ix_last = IxDone("start", 0)

IxNext ==
    \/ \E fail_at \in FailurePoints : start(fail_at)
    \/ from_env
    \/ \E contents \in LedgerContents(Len(ix_chain) + 1) : ledger_close(contents)

\* ------------------------------------------------------------------------
\* Specifications
\* ------------------------------------------------------------------------
EscrowIds == 1..(MaxEscrows + 1)

EmInit ==
    /\ em_config = None
    /\ em_next_id = None
    /\ em_test_rate = None
    /\ escrows = << >>
    /\ balances = [a \in Assets |-> [h \in Holders |-> IF h = Lender THEN LenderMint ELSE 0]]
    /\ allowance = [a \in Assets |-> 0]
    /\ coll_locked = [c \in {1, 2} |-> None]
    /\ em_events = EmptyBag
    /\ em_last = Done("deploy", 0, None, None, << >>, << >>)
    /\ em_frame = None

\* The three contracts are deployed and not yet initialized.
Init ==
    /\ EmInit
    /\ OaInit
    /\ LmInit
    /\ ar_last = ArDone("none", 0, 0, TRUE, None)
    /\ IxInit
    /\ now = 0

EmNext ==
    \/ em_initialize(Admin, CollReg, OracleAddr, LoanMgr, Treasury)
    \/ \E rate \in TestRates : set_test_exchange_rate(rate)
    \/ \E config \in EscrowConfigs, auth \in BOOLEAN, lock_ok \in BOOLEAN :
          create_escrow(config, auth, lock_ok)
    \/ \E id \in EscrowIds, confs \in ConfAnswers, fee \in TreasuryAnswers :
          release_funds_on_confirmation(id, confs, fee)
    \/ \E id \in EscrowIds : refund_escrow(id)
    \/ AdvanceTime

SpecEscrow == Init /\ [][EmNext]_vars

SpecOracle == Init /\ [][OaNext]_vars

SpecLoan == Init /\ [][LmNext]_vars

\* EscrowManager with release taken one host call at a time.  Invocations do
\* not overlap: while a release is in progress no other invocation starts and
\* the ledger does not close.
StepNext ==
    \/ em_frame = None /\ em_initialize(Admin, CollReg, OracleAddr, LoanMgr, Treasury)
    \/ em_frame = None /\ \E rate \in TestRates : set_test_exchange_rate(rate)
    \/ em_frame = None /\ \E config \in EscrowConfigs : create_escrow(config, TRUE, TRUE)
    \/ em_frame = None /\ \E id \in EscrowIds : refund_escrow(id)
    \/ em_frame = None /\ AdvanceTime
    \/ \E id \in EscrowIds, confs \in ConfAnswers : release_begin(id, confs)
    \/ release_pay
    \/ \E fee \in TreasuryAnswers : release_fee(fee)
    \/ release_unlock
    \/ release_persist

SpecSteps == Init /\ [][StepNext]_vars

\* --- EscrowManager composed with OracleAdapter ---------------------------
\* u64::to_be_bytes: eight bytes, most significant first (ids here are < 2^32).
to_be_bytes(n) == [i \in 1..8 |-> IF i <= 4 THEN 0 ELSE (n \div 256^(8 - i)) % 256]

\* env.invoke_contract(oracle, "get_confirmation", [escrow_id_bytes]).  The
\* adapter's Bytes keys are named in OaEscrowIds by the u64 they encode; a key
\* no confirm_event was ever called with holds nothing.
invoke_get_confirmation_stored(escrow_id) ==
    LET escrow_id_bytes == to_be_bytes(escrow_id)
        keys == { k \in OaEscrowIds : to_be_bytes(k) = escrow_id_bytes }
    IN  IF keys = {} THEN None
        ELSE get_confirmation_any_oracle(CHOOSE k \in keys : TRUE)

invoke_get_confirmation(escrow_id) ==
    LET escrow_id_bytes == to_be_bytes(escrow_id)
        keys == { k \in OaEscrowIds : to_be_bytes(k) = escrow_id_bytes }
    IN  IF keys = {} THEN None
        ELSE get_confirmation(CHOOSE k \in keys : TRUE)

\* release_funds_on_confirmation with the oracle's answer taken from the adapter.
release_via_oracle(escrow_id, fee_answer) ==
    release_funds_on_confirmation(escrow_id, invoke_get_confirmation(escrow_id), fee_answer)

\* A same-asset escrow requiring event type 2 and a cross-asset one requiring 5.
ComposedConfigs ==
    { Config(1, 5, "XLM", "XLM", 5, 2, 1), Config(1, 5, "XLM", "USDC", 5, 5, 1) }

ComposedNext ==
    \/ em_initialize(Admin, CollReg, OracleAddr, LoanMgr, Treasury)
    \/ \E config \in ComposedConfigs : create_escrow(config, TRUE, TRUE)
    \/ oa_initialize(Admin)
    \/ \E oracle \in Oracles : add_oracle(Admin, oracle)
    \/ \E oracle \in Oracles : remove_oracle(Admin, oracle)
    \/ \E caller \in Oracles, escrow_id \in OaEscrowIds, event_type \in {1, 2, 5} :
          confirm_event(caller, escrow_id, event_type, "delivered",
                        Sign(caller, create_message(escrow_id, event_type, "delivered")))
    \/ \E id \in EscrowIds : release_via_oracle(id, Some(2500))

SpecComposed == Init /\ [][ComposedNext]_vars

\* The composition with the ledger clock and the refund path; one oracle is
\* registered, removed and confirming, for the escrows that exist.
ComposedTimeNext ==
    \/ em_initialize(Admin, CollReg, OracleAddr, LoanMgr, Treasury)
    \/ \E config \in ComposedConfigs : create_escrow(config, TRUE, TRUE)
    \/ oa_initialize(Admin)
    \/ add_oracle(Admin, "oracle1")
    \/ remove_oracle(Admin, "oracle1")
    \/ \E escrow_id \in OaEscrowIds \cap DOMAIN escrows, event_type \in {2, 5} :
          confirm_event("oracle1", escrow_id, event_type, "delivered",
                        Sign("oracle1", create_message(escrow_id, event_type, "delivered")))
    \/ \E id \in EscrowIds : release_via_oracle(id, Some(2500))
    \/ \E id \in EscrowIds : refund_escrow(id)
    \/ AdvanceTime

SpecComposedTime == Init /\ [][ComposedTimeNext]_vars

\* The three initialize functions, called with any addresses at any time,
\* among the operations that move the id counters and the oracle registry.
InitNext ==
    \/ \E admin \in {Admin, Stranger}, treasury \in {Treasury, Stranger} :
          em_initialize(admin, CollReg, OracleAddr, LoanMgr, treasury)
    \/ \E config \in EscrowConfigs : create_escrow(config, TRUE, TRUE)
    \/ \E admin \in {Admin, Stranger} : oa_initialize(admin)
    \/ \E caller \in OaCallers, oracle \in Oracles : add_oracle(caller, oracle)
    \/ \E caller \in OaCallers, oracle \in Oracles : remove_oracle(caller, oracle)
    \/ \E admin \in {Admin, Stranger} : lm_initialize(admin)
    \/ \E escrow_id \in LoanEscrowIds : issue_loan(escrow_id, 1000, 500, 1, TRUE)

SpecInit == Init /\ [][InitNext]_vars

\* The arithmetic of repay_loan and release on amounts up to the i128 range.
SpecArith == Init /\ [][ArithNext]_vars

\* The event indexer polling an RPC endpoint whose chain grows.
SpecIndexer == Init /\ [][IxNext]_vars

\* ------------------------------------------------------------------------
\* Claims about EscrowManager (checked under SpecEscrow)
\* ------------------------------------------------------------------------
Released(id) == CopiesIn(<< "esc_rel", id >>, em_events)
Refunded(id) == CopiesIn(<< "esc_rfnd", id >>, em_events)

\* C1: for every escrow id at most one release_funds_on_confirmation or
\* refund_escrow call ever succeeds, and once one has succeeded every release
\* and every refund on that id returns EscrowNotActive.
C1_ReleaseRefundExclusive ==
    \A id \in DOMAIN escrows :
        /\ Released(id) + Refunded(id) <= 1
        /\ Released(id) + Refunded(id) = 1 =>
              /\ refund_result(id) = "EscrowNotActive"
              /\ \A confs \in ConfAnswers, fee \in TreasuryAnswers :
                    release_result(id, confs, fee) = "EscrowNotActive"

\* An escrow was released, is past its expiry, and custody still holds enough of
\* its asset to pay a refund: only the status check stands in the way.
C1_Witness ==
    \E id \in DOMAIN escrows :
        /\ Released(id) = 1
        /\ now > escrows[id].expiry_ts
        /\ balances[escrows[id].asset][Contract] >= escrows[id].amount

\* C2: an escrow's status moves only Active -> Released or Active -> Refunded;
\* a Released or Refunded escrow never changes again, and no later step moves
\* tokens on its behalf.
C2_TerminalStatus ==
    [][\A id \in DOMAIN escrows :
          /\ id \in DOMAIN escrows'
          /\ escrows'[id].status # escrows[id].status =>
                /\ escrows[id].status = "Active"
                /\ escrows'[id].status \in {"Released", "Refunded"}
          /\ escrows[id].status # "Active" =>
                /\ escrows'[id] = escrows[id]
                /\ balances' # balances => em_last'.id # id]_vars

\* A terminal escrow sits beside another escrow on which a payout was committed.
C2_Witness ==
    \E id \in DOMAIN escrows :
        /\ escrows[id].status = "Released"
        /\ em_last.op \in {"release", "refund"}
        /\ em_last.id # id

HasVerifiedMatch(answer, required) ==
    /\ answer # << >>
    /\ \E i \in DOMAIN answer[1] :
          answer[1][i].event_type = required /\ answer[1][i].verified = TRUE

\* C3: release on an Active escrow returns ConfirmationNotMet unless the oracle's
\* answer holds an entry with the required event type and verified = true; every
\* committed release had such an entry.
C3_ConfirmationGate ==
    /\ \A id \in DOMAIN escrows : \A confs \in ConfAnswers, fee \in TreasuryAnswers :
          (escrows[id].status = "Active"
              /\ ~HasVerifiedMatch(confs, escrows[id].required_confirmation))
          => release_result(id, confs, fee) = "ConfirmationNotMet"
    /\ em_last.op = "release" =>
          HasVerifiedMatch(em_last.confs, escrows[em_last.id].required_confirmation)

\* An Active escrow requiring event type 2 whose release is refused both for an
\* unverified entry of type 2 and for a verified entry of another type.
C3_Witness ==
    \E id \in DOMAIN escrows :
        /\ escrows[id].status = "Active"
        /\ escrows[id].required_confirmation = 2
        /\ release_result(id, Some(<< Conf(2, FALSE) >>), Some(0)) = "ConfirmationNotMet"
        /\ release_result(id, Some(<< Conf(5, TRUE) >>), Some(0)) = "ConfirmationNotMet"

\* C4: refund on an Active escrow returns EscrowNotExpired whenever
\* now <= expiry_ts, and returns Ok only when now > expiry_ts.
C4_ExpiryGate ==
    \A id \in DOMAIN escrows :
        /\ (escrows[id].status = "Active" /\ now <= escrows[id].expiry_ts)
              => refund_result(id) = "EscrowNotExpired"
        /\ refund_result(id) = "Ok" => now > escrows[id].expiry_ts
        /\ Refunded(id) > 0 => now > escrows[id].expiry_ts

\* An Active escrow at exactly its expiry timestamp.
C4_Witness ==
    \E id \in DOMAIN escrows :
        /\ escrows[id].status = "Active"
        /\ now = escrows[id].expiry_ts
        /\ refund_result(id) = "EscrowNotExpired"

\* C5: a successful refund credits the lender with exactly the escrow's amount of
\* its asset, debits custody by exactly that amount, leaves every other balance
\* alone, unlocks the escrow's collateral and sets the status to Refunded.
C5_RefundEffect ==
    [][\A id \in DOMAIN escrows :
          CopiesIn(<< "esc_rfnd", id >>, em_events') > Refunded(id) =>
             LET e == escrows[id] IN
             /\ balances'[e.asset][Lender] = balances[e.asset][Lender] + e.amount
             /\ balances'[e.asset][Contract] = balances[e.asset][Contract] - e.amount
             /\ balances'[e.asset][Seller] = balances[e.asset][Seller]
             /\ \A a \in Assets \ {e.asset} : balances'[a] = balances[a]
             /\ coll_locked'[e.collateral_id] = << FALSE >>
             /\ escrows'[id].status = "Refunded"]_vars

\* A refund has been committed.
C5_Witness ==
    /\ em_last.op = "refund"
    /\ escrows[em_last.id].status = "Refunded"
    /\ balances[escrows[em_last.id].asset][Lender] > 0

TokenMoves(effects) ==
    SelectSeq(effects, LAMBDA x : x.kind \in {"transfer", "transfer_from"})

Stored(escrow_id, oracle) == IsSome(oa_confs[<< escrow_id, oracle >>])

\* C7 as the specification states it: once oracle o has a stored confirmation
\* for escrow e, every later confirm_event by o for e fails with
\* ConfirmationAlreadyExists, whatever event_type, result or signature it carries.
C7_AlwaysConfirmationAlreadyExists ==
    \A slot \in Slots : Stored(slot[1], slot[2]) =>
        \A event_type \in EventTypeInputs, result \in ResultInputs :
            \A signature \in SignatureInputs(slot[2], slot[1], event_type, result) :
                confirm_event_result(slot[2], slot[1], event_type, result, signature)
                    = "ConfirmationAlreadyExists"

\* C7 (amended): once oracle o has a stored confirmation for escrow e, every
\* later confirm_event by o for e fails, whatever result or signature it
\* carries, and the stored confirmation is never changed.  The error is
\* OracleNotRegistered when o is no longer registered, InvalidEventType when
\* o is registered and event_type is outside 1..4, and
\* ConfirmationAlreadyExists when o is registered and event_type is in 1..4.
C7_ReplayRejected ==
    /\ [](\A slot \in Slots : Stored(slot[1], slot[2]) =>
            \A event_type \in EventTypeInputs, result \in ResultInputs :
                \A signature \in SignatureInputs(slot[2], slot[1], event_type, result) :
                    confirm_event_result(slot[2], slot[1], event_type, result, signature) =
                        IF \A i \in 1..Len(get_contract_data.oracles) :
                                get_contract_data.oracles[i] # slot[2]
                        THEN "OracleNotRegistered"
                        ELSE IF event_type \notin 1..4 THEN "InvalidEventType"
                        ELSE "ConfirmationAlreadyExists")
    /\ [][\A slot \in Slots : Stored(slot[1], slot[2]) => oa_confs'[slot] = oa_confs[slot]]_vars

\* A registered oracle holds a stored confirmation for an escrow, and a
\* well-signed confirmation with another valid event type and result is refused.
C7_Witness ==
    \E slot \in Slots :
        /\ Stored(slot[1], slot[2])
        /\ is_oracle_registered(get_contract_data, slot[2])
        /\ Unwrap(oa_confs[slot]).event_type = 1
        /\ confirm_event_result(slot[2], slot[1], 4, "damaged",
                                Sign(slot[2], create_message(slot[1], 4, "damaged")))
               = "ConfirmationAlreadyExists"

\* ------------------------------------------------------------------------
\* Claims about LoanManagement (checked under SpecLoan)
\* ------------------------------------------------------------------------
LoansOf(escrow_id) == { i \in DOMAIN loans : loans[i].escrow_id = escrow_id }

Issued(escrow_id) == CopiesIn(<< "loan_iss", escrow_id >>, lm_events)

\* C8: at most one loan is ever issued per escrow id.  For an escrow id with
\* no loan, an authorized issue_loan whose deadline is representable succeeds;
\* once a loan exists for the escrow id, every authorized issue_loan for it
\* fails with LoanAlreadyIssued, also when that loan is Repaid, Defaulted or
\* Liquidated.
C8_OneLoanPerEscrow ==
    \A escrow_id \in LoanEscrowIds :
        /\ Issued(escrow_id) <= 1
        /\ Cardinality(LoansOf(escrow_id)) <= 1
        /\ \A terms \in LoanTerms, duration \in Durations :
              LET r == issue_loan_result(escrow_id, terms[1], terms[2], duration, TRUE) IN
              /\ Issued(escrow_id) = 1 => r = "LoanAlreadyIssued"
              /\ (Issued(escrow_id) = 0 /\ now + duration <= U64_MAX) => r = "Ok"

\* A Repaid loan's escrow id is still refused, while another escrow id can
\* still get its first loan.
C8_Witness ==
    /\ \E i \in DOMAIN loans :
          /\ loans[i].status = "Repaid"
          /\ Issued(loans[i].escrow_id) = 1
          /\ issue_loan_result(loans[i].escrow_id, 1000, 500, 1, TRUE) = "LoanAlreadyIssued"
    /\ \E escrow_id \in LoanEscrowIds :
          /\ Issued(escrow_id) = 0
          /\ issue_loan_result(escrow_id, 1000, 500, 1, TRUE) = "Ok"

AmountDue(amount, interest_rate) ==
    LET product == amount * interest_rate
    IN  amount + (IF product >= 0 THEN product \div 10000 ELSE -((-product) \div 10000))

\* C10: on an Active loan that has not passed its deadline, repay_loan
\* authorized by the borrower succeeds exactly when the amount paid is at
\* least amount + amount * interest_rate / 10000 (truncating toward zero), and
\* otherwise fails with InsufficientAmount, the loan staying Active; a loan
\* only becomes Repaid through such a sufficient payment.
C10_RepayThreshold ==
    /\ \A i \in DOMAIN loans : (loans[i].status = "Active" /\ now <= loans[i].deadline) =>
          \A paid \in Payments :
              repay_loan_result(i, paid, TRUE) =
                  IF paid >= AmountDue(loans[i].amount, loans[i].interest_rate)
                  THEN "Ok" ELSE "InsufficientAmount"
    /\ lm_last.op = "repay_loan" =>
          /\ loans[lm_last.id].status = "Repaid"
          /\ lm_last.amount >= AmountDue(loans[lm_last.id].amount,
                                         loans[lm_last.id].interest_rate)

\* The 1000 at 500 bps loan refuses 1049 and accepts 1050, and a loan of
\* negative amount, whose interest truncates to zero, refuses -16 and accepts -15.
C10_Witness ==
    /\ \E i \in DOMAIN loans :
          /\ loans[i].status = "Active" /\ now <= loans[i].deadline
          /\ loans[i].amount = 1000 /\ loans[i].interest_rate = 500
          /\ repay_loan_result(i, 1049, TRUE) = "InsufficientAmount"
          /\ repay_loan_result(i, 1050, TRUE) = "Ok"
    /\ \E i \in DOMAIN loans :
          /\ loans[i].status = "Active" /\ now <= loans[i].deadline
          /\ loans[i].amount = -15
          /\ repay_loan_result(i, -16, TRUE) = "InsufficientAmount"
          /\ repay_loan_result(i, -15, TRUE) = "Ok"

\* C11: repay_loan authorized by the borrower on an Active loan fails with
\* DeadlinePassed whenever the ledger timestamp is strictly greater than the
\* deadline, whatever is paid; at timestamp = deadline a payment covering the
\* amount due is accepted; a loan becomes Repaid only at a timestamp <= deadline.
C11_RepayDeadline ==
    /\ [](\A i \in DOMAIN loans : loans[i].status = "Active" =>
            \A paid \in Payments :
                /\ now > loans[i].deadline =>
                      repay_loan_result(i, paid, TRUE) = "DeadlinePassed"
                /\ (now = loans[i].deadline
                    /\ paid >= AmountDue(loans[i].amount, loans[i].interest_rate)) =>
                      repay_loan_result(i, paid, TRUE) = "Ok")
    /\ [][\A i \in DOMAIN loans :
            (i \in DOMAIN loans' /\ loans[i].status = "Active" /\ loans'[i].status = "Repaid")
                => now <= loans[i].deadline]_vars

\* One Active loan is past its deadline and refuses a payment above the amount
\* due, another is exactly at its deadline and accepts the amount due.
C11_Witness ==
    /\ \E i \in DOMAIN loans :
          /\ loans[i].status = "Active" /\ now > loans[i].deadline
          /\ loans[i].amount = 1000 /\ loans[i].interest_rate = 500
          /\ repay_loan_result(i, 1051, TRUE) = "DeadlinePassed"
    /\ \E i \in DOMAIN loans :
          /\ loans[i].status = "Active" /\ now = loans[i].deadline
          /\ loans[i].amount = 1015 /\ loans[i].interest_rate = 250
          /\ repay_loan_result(i, 1040, TRUE) = "Ok"

\* repay_loan passes its time guard: it fails, if at all, only later.
RepayInTime(i) ==
    \E paid \in Payments : repay_loan_result(i, paid, TRUE) \in {"Ok", "InsufficientAmount"}

\* C12: mark_default on an Active loan fails with DeadlineNotPassed whenever
\* the ledger timestamp is <= the deadline; in no state do repay_loan and
\* mark_default both pass their time guard for the same loan; a loan becomes
\* Defaulted only through a mark_default that ran strictly after the deadline.
C12_DefaultAfterDeadline ==
    /\ [](\A i \in DOMAIN loans : loans[i].status = "Active" =>
            /\ now <= loans[i].deadline => mark_default_result(i) = "DeadlineNotPassed"
            /\ now > loans[i].deadline => mark_default_result(i) = "Ok"
            /\ ~(RepayInTime(i) /\ mark_default_result(i) = "Ok"))
    /\ [][\A i \in DOMAIN loans :
            (i \in DOMAIN loans' /\ loans[i].status # "Defaulted"
             /\ loans'[i].status = "Defaulted")
                => /\ now > loans[i].deadline
                   /\ loans[i].status = "Active"
                   /\ lm_last'.op = "mark_default" /\ lm_last'.id = i]_vars

\* One loan has been Defaulted after its deadline while another Active loan,
\* exactly at its deadline, still refuses mark_default and accepts repayment.
C12_Witness ==
    /\ \E i \in DOMAIN loans : loans[i].status = "Defaulted" /\ now > loans[i].deadline
    /\ \E i \in DOMAIN loans :
          /\ loans[i].status = "Active" /\ now = loans[i].deadline
          /\ mark_default_result(i) = "DeadlineNotPassed"
          /\ RepayInTime(i)

\* ------------------------------------------------------------------------
\* Further claims about EscrowManager (checked under SpecEscrow)
\* ------------------------------------------------------------------------
CrossAsset(e) == e.asset # e.destination_asset

\* amount * rate / 1_000_000, truncated; the rate defaults to 1_000_000.
Estimate(amount) ==
    (amount * (IF em_test_rate = << >> THEN 1000000 ELSE em_test_rate[1])) \div 1000000

\* C13: for an Active cross-asset escrow and an oracle answer holding a
\* matching verified confirmation, release fails with SlippageExceeded exactly
\* when the estimate is below min_destination_amount, and succeeds when it is
\* at or above it (the treasury answering); every committed cross-asset release
\* published an estimate >= min_destination_amount.
C13_SlippageGate ==
    /\ \A id \in DOMAIN escrows : (escrows[id].status = "Active" /\ CrossAsset(escrows[id])) =>
          \A confs \in ConfAnswers, fee \in TreasuryAnswers :
              HasVerifiedMatch(confs, escrows[id].required_confirmation) =>
                  /\ release_result(id, confs, fee) = "SlippageExceeded"
                        <=> Estimate(escrows[id].amount) < escrows[id].min_destination_amount
                  /\ (Estimate(escrows[id].amount) >= escrows[id].min_destination_amount
                      /\ fee # << >>) => release_result(id, confs, fee) = "Ok"
    /\ (em_last.op = "release" /\ CrossAsset(escrows[em_last.id])) =>
          \E k \in 1..Len(em_last.events) :
              /\ em_last.events[k][1] = "path_pay"
              /\ em_last.events[k][4] >= escrows[em_last.id].min_destination_amount

\* With the rate at 900000, the 5 XLM escrow (estimate 4 < 5) is refused and the
\* 4 USDC escrow (estimate 3 = 3) is released.
C13_Witness ==
    /\ em_test_rate = << 900000 >>
    /\ \E id \in DOMAIN escrows :
          /\ escrows[id].status = "Active" /\ CrossAsset(escrows[id])
          /\ escrows[id].amount = 5 /\ escrows[id].min_destination_amount = 5
          /\ release_result(id, << << Conf(5, TRUE) >> >>, << 0 >>) = "SlippageExceeded"
    /\ \E id \in DOMAIN escrows :
          /\ escrows[id].status = "Active" /\ CrossAsset(escrows[id])
          /\ escrows[id].amount = 4 /\ escrows[id].min_destination_amount = 3
          /\ release_result(id, << << Conf(1, TRUE), Conf(2, TRUE) >> >>, << 0 >>) = "Ok"

Created(id) == CopiesIn(<< "esc_crtd", id >>, em_events)

\* C14: the escrows created so far carry the ids 1..n, each created exactly
\* once and stored under its own id; the latest committed create_escrow
\* returned id n; after initialize next_id is n + 1, and next_id only changes
\* by initialize (to 1, before any creation) or by a committed create_escrow
\* (by exactly one): a failed create_escrow does not consume an id.
C14_SequentialIds ==
    /\ [](LET n == Cardinality(DOMAIN escrows) IN
            /\ DOMAIN escrows = 1..n
            /\ \A id \in EscrowIds : Created(id) = (IF id <= n THEN 1 ELSE 0)
            /\ \A id \in DOMAIN escrows : escrows[id].id = id
            /\ em_last.op = "create_escrow" => em_last.id = n
            /\ em_config # << >> => em_next_id = << n + 1 >>
            /\ em_config = << >> => (n = 0 /\ em_next_id = << >>))
    /\ [][em_next_id' # em_next_id =>
            \/ /\ em_last'.op = "initialize"
               /\ em_next_id' = << 1 >> /\ escrows = << >>
            \/ /\ em_last'.op = "create_escrow"
               /\ em_next_id' = << em_next_id[1] + 1 >>
               /\ em_last'.id = em_next_id[1]
               /\ em_last'.id \notin DOMAIN escrows
               /\ em_last'.id \in DOMAIN escrows']_vars

\* The second escrow got id 2, and a create_escrow with amount 0 is refused
\* while next_id stands at 3.
C14_Witness ==
    /\ em_last.op = "create_escrow" /\ em_last.id = 2
    /\ DOMAIN escrows = {1, 2}
    /\ em_next_id = << 3 >>
    /\ create_escrow_result(Config(1, 0, "XLM", "XLM", 5, 2, 1), TRUE, TRUE) = "InvalidAmount"

\* C15: while an escrow is Active the collateral it references is locked in
\* the registry, and a collateral is unlocked only in a step after which no
\* escrow referencing it is Active, also when two escrows reference the same
\* collateral id.
C15_CollateralLockedWhileActive ==
    /\ [](\A id \in DOMAIN escrows : escrows[id].status = "Active" =>
            coll_locked[escrows[id].collateral_id] = << TRUE >>)
    /\ [][\A c \in DOMAIN coll_locked :
            (coll_locked[c] = << TRUE >> /\ coll_locked'[c] # << TRUE >>) =>
                \A id \in DOMAIN escrows' :
                    escrows'[id].collateral_id = c => escrows'[id].status # "Active"]_vars

C17_InvalidAmountFirst ==
    /\ \A config \in EscrowConfigs, lock_ok \in BOOLEAN :
          (config.amount <= 0 \/ config.min_destination_amount <= 0) =>
              create_escrow_result(config, TRUE, lock_ok) = "InvalidAmount"
    /\ \A id \in DOMAIN escrows :
          escrows[id].amount > 0 /\ escrows[id].min_destination_amount > 0

\* An escrow is stored, and create_escrow with min_destination_amount 0, with
\* amount 0 and with amount -1 is refused although the registry would trap.
C17_Witness ==
    /\ \E id \in DOMAIN escrows : escrows[id].amount > 0
    /\ create_escrow_result(Config(1, 5, "XLM", "USDC", 0, 2, 1), TRUE, FALSE) = "InvalidAmount"
    /\ create_escrow_result(Config(1, 0, "XLM", "XLM", 5, 2, 1), TRUE, FALSE) = "InvalidAmount"
    /\ create_escrow_result(Config(1, -1, "XLM", "XLM", 5, 2, 1), TRUE, FALSE) = "InvalidAmount"

\* The sum of the amounts of the Active escrows held in asset.
RECURSIVE ActiveSum(_, _)
ActiveSum(ids, asset) ==
    IF ids = {} THEN 0
    ELSE LET id == CHOOSE x \in ids : TRUE
         IN  (IF escrows[id].status = "Active" /\ escrows[id].asset = asset
              THEN escrows[id].amount ELSE 0) + ActiveSum(ids \ {id}, asset)

\* C18: release and refund return EscrowNotFound for an unknown id,
\* EscrowNotActive for a settled escrow, ConfirmationNotMet, SlippageExceeded
\* and EscrowNotExpired in their cases; a step that publishes neither esc_rel
\* nor esc_rfnd for an escrow leaves its record unchanged, and a step that
\* publishes neither of them at all leaves the balances in custody and at the
\* seller and every collateral unlock undone; so an Active escrow stays
\* releasable (given a matching verified confirmation, an estimate not below
\* the floor and a treasury answer) and, after expiry, refundable.
C18_FailedCallsLeaveState ==
    /\ [](/\ \A id \in EscrowIds \ DOMAIN escrows :
              /\ refund_result(id) = "EscrowNotFound"
              /\ \A confs \in ConfAnswers, fee \in TreasuryAnswers :
                    release_result(id, confs, fee) = "EscrowNotFound"
          /\ \A asset \in Assets :
                balances[asset][Contract] >= ActiveSum(DOMAIN escrows, asset)
          /\ \A id \in DOMAIN escrows : escrows[id].status = "Active" =>
              /\ now > escrows[id].expiry_ts => refund_result(id) = "Ok"
              /\ \A confs \in ConfAnswers, fee \in TreasuryAnswers :
                    (/\ HasVerifiedMatch(confs, escrows[id].required_confirmation)
                     /\ (CrossAsset(escrows[id]) =>
                            Estimate(escrows[id].amount) >= escrows[id].min_destination_amount)
                     /\ fee # << >>) => release_result(id, confs, fee) = "Ok")
    /\ [][\/ << escrows, balances, coll_locked >>' = << escrows, balances, coll_locked >>
          \/ /\ \A id \in DOMAIN escrows :
                   (Released(id)' = Released(id) /\ Refunded(id)' = Refunded(id)) =>
                       (id \in DOMAIN escrows' /\ escrows'[id] = escrows[id])
             /\ (\A id \in EscrowIds :
                   Released(id)' = Released(id) /\ Refunded(id)' = Refunded(id)) =>
                       /\ \A asset \in Assets :
                             /\ balances'[asset][Seller] = balances[asset][Seller]
                             /\ balances'[asset][Contract] >= balances[asset][Contract]
                       /\ \A c \in DOMAIN coll_locked :
                             coll_locked[c] = << TRUE >> => coll_locked'[c] = << TRUE >>]_vars

\* Two Active escrows after a release was refused: escrow 1 is before its expiry
\* and lacks its confirmation, the cross-asset escrow 2 is below its floor; both
\* are still fully funded and locked.
C18_Witness ==
    /\ DOMAIN escrows = {1, 2}
    /\ escrows[1].status = "Active" /\ escrows[2].status = "Active"
    /\ now <= escrows[1].expiry_ts
    /\ refund_result(1) = "EscrowNotExpired"
    /\ release_result(1, << >>, << 0 >>) = "ConfirmationNotMet"
    /\ CrossAsset(escrows[2])
    /\ release_result(2, << << Conf(5, TRUE) >> >>, << 0 >>) = "SlippageExceeded"
    /\ refund_result(3) = "EscrowNotFound"

\* The calls of one kind among the effects of an invocation.
Calls(effects, kind) == SelectSeq(effects, LAMBDA x : x.kind = kind)

\* The events of one topic among the events of an invocation.
Topic(events, topic) == SelectSeq(events, LAMBDA x : x[1] = topic)

\* C19: for every committed release, with fee = amount * fee_bps / 10000
\* truncated, where fee_bps is what the treasury answered: if fee > 0 exactly
\* one deposit_fee call (asset, fee) is made and one fee_col event (id, fee)
\* published, if fee = 0 neither is; the seller is transferred the full escrow
\* amount.
C19_FeeRecordedNotDeducted ==
    em_last.op = "release" =>
        LET e == escrows[em_last.id]
            fee == (e.amount * em_last.fee_bps[1]) \div 10000
        IN  /\ Calls(em_last.effects, "deposit_fee") =
                  (IF fee > 0
                   THEN << [kind |-> "deposit_fee", asset |-> e.asset, from |-> Contract,
                            to |-> em_config[1].treasury, amount |-> fee] >>
                   ELSE << >>)
            /\ Topic(em_last.events, "fee_col") =
                  (IF fee > 0 THEN << << "fee_col", em_last.id, fee, 0 >> >> ELSE << >>)
            /\ Calls(em_last.effects, "transfer") =
                  << [kind |-> "transfer", asset |-> e.asset, from |-> Contract,
                      to |-> e.seller, amount |-> e.amount] >>
            /\ balances[e.asset][Seller] >= e.amount

\* A release of 5 at 1000 bps (fee 0.5, truncated to 0) recorded no fee.
C19_Witness ==
    /\ em_last.op = "release"
    /\ em_last.fee_bps = << 1000 >>
    /\ escrows[em_last.id].amount = 5
    /\ Calls(em_last.effects, "deposit_fee") = << >>

Registry == get_contract_data.oracles

Registered == { Registry[i] : i \in 1..Len(Registry) }

C21_RegistryNoDuplicates ==
    /\ \A i, j \in 1..Len(Registry) : Registry[i] = Registry[j] => i = j
    /\ Len(Registry) = Cardinality(Registered)
    /\ \A oracle \in Oracles :
          /\ oracle \in Registered =>
                add_oracle_result(get_contract_data.admin, oracle) = "OracleAlreadyRegistered"
          /\ oracle \notin Registered =>
                remove_oracle_result(get_contract_data.admin, oracle) = "OracleNotRegistered"

\* Both oracles are registered, the second-added one first: an oracle was
\* removed and added again, and adding either once more is refused.
C21_Witness ==
    /\ Registry = << "oracle2", "oracle1" >>
    /\ add_oracle_result(Admin, "oracle1") = "OracleAlreadyRegistered"

\* ------------------------------------------------------------------------
\* C22: add_oracle and remove_oracle invoked by a caller other than the
\* stored admin answer Unauthorized and leave the registry as it was; before
\* initialize this holds for every caller, so the registry only changes once
\* the contract is initialized.
\* ------------------------------------------------------------------------
C22_RegistryAdminOnly ==
    /\ [](\A caller \in OaCallers, oracle \in Oracles :
            (~is_initialized \/ caller # get_contract_data.admin) =>
                /\ add_oracle_result(caller, oracle) = "Unauthorized"
                /\ remove_oracle_result(caller, oracle) = "Unauthorized")
    /\ [][/\ Registry' # Registry => is_initialized
          /\ \A caller \in OaCallers, oracle \in Oracles :
                (/\ caller # get_contract_data.admin
                 /\ add_oracle(caller, oracle) \/ remove_oracle(caller, oracle))
                    => Registry' = Registry]_vars

\* The registry holds oracle1; a stranger adding oracle2 and oracle1 removing
\* itself are both refused.
C22_Witness ==
    /\ is_initialized
    /\ Registry = << "oracle1" >>
    /\ add_oracle_result(Stranger, "oracle2") = "Unauthorized"
    /\ remove_oracle_result("oracle1", "oracle1") = "Unauthorized"

\* ------------------------------------------------------------------------
\* C23: confirm_event by a caller that is not a registered oracle answers
\* OracleNotRegistered, and by a registered oracle with event_type outside
\* 1..4 answers InvalidEventType; a confirmation is only ever written into
\* the slot of an oracle registered at the time of the call, with an
\* event_type in 1..4.
\* ------------------------------------------------------------------------
C23_ConfirmGuards ==
    /\ [](\A caller \in Oracles \cup {Stranger}, escrow_id \in OaEscrowIds,
             event_type \in EventTypeInputs, result \in ResultInputs :
             \A signature \in SignatureInputs(caller, escrow_id, event_type, result) :
                /\ caller \notin Registered =>
                      confirm_event_result(caller, escrow_id, event_type, result, signature)
                          = "OracleNotRegistered"
                /\ (caller \in Registered /\ event_type \notin 1..4) =>
                      confirm_event_result(caller, escrow_id, event_type, result, signature)
                          = "InvalidEventType")
    /\ [][\A slot \in Slots : oa_confs'[slot] # oa_confs[slot] =>
                /\ slot[2] \in Registered
                /\ IsSome(oa_confs'[slot])
                /\ Unwrap(oa_confs'[slot]).oracle = slot[2]
                /\ Unwrap(oa_confs'[slot]).escrow_id = slot[1]
                /\ Unwrap(oa_confs'[slot]).event_type \in 1..4]_vars

\* oracle1 is registered and has stored a confirmation of type 4; the
\* unregistered oracle2 and oracle1's event types 0 and 5 are refused, and
\* oracle2 has stored nothing.
C23_Witness ==
    /\ Registry = << "oracle1" >>
    /\ IsSome(oa_confs[<< 1, "oracle1" >>])
    /\ Unwrap(oa_confs[<< 1, "oracle1" >>]).event_type = 4
    /\ \A escrow_id \in OaEscrowIds : oa_confs[<< escrow_id, "oracle2" >>] = None
    /\ confirm_event_result("oracle2", 1, 1, "delivered",
                            Sign("oracle2", create_message(1, 1, "delivered")))
           = "OracleNotRegistered"
    /\ \A event_type \in {0, 5} :
          confirm_event_result("oracle1", 2, event_type, "delivered",
                               Sign("oracle1", create_message(2, event_type, "delivered")))
              = "InvalidEventType"

\* ------------------------------------------------------------------------
\* C24: get_confirmation(e) is None when no currently registered oracle has a
\* stored confirmation for e; otherwise it is the list of the confirmations
\* stored for e by the currently registered oracles, one per oracle, in
\* registry order.
\* ------------------------------------------------------------------------
RegistryIndex(oracle) == CHOOSE i \in 1..Len(Registry) : Registry[i] = oracle

Confirmers(escrow_id) == { o \in Registered : IsSome(oa_confs[<< escrow_id, o >>]) }

C24_GetConfirmation ==
    \A escrow_id \in OaEscrowIds :
        LET answer == get_confirmation(escrow_id) IN
        /\ Confirmers(escrow_id) = {} <=> answer = None
        /\ IsSome(answer) =>
              LET confirmations == Unwrap(answer) IN
              /\ Len(confirmations) = Cardinality(Confirmers(escrow_id))
              /\ \A k \in 1..Len(confirmations) :
                    /\ confirmations[k].oracle \in Confirmers(escrow_id)
                    /\ confirmations[k]
                          = Unwrap(oa_confs[<< escrow_id, confirmations[k].oracle >>])
              /\ \A k, l \in 1..Len(confirmations) :
                    k < l => RegistryIndex(confirmations[k].oracle)
                                < RegistryIndex(confirmations[l].oracle)

\* Both oracles confirmed escrow 1, oracle1 was then removed and added again:
\* the answer lists oracle2's confirmation before oracle1's, and escrow 2,
\* which nobody confirmed, has none.
C24_Witness ==
    /\ Registry = << "oracle2", "oracle1" >>
    /\ IsSome(get_confirmation(1))
    /\ Len(Unwrap(get_confirmation(1))) = 2
    /\ Unwrap(get_confirmation(1))[1].oracle = "oracle2"
    /\ get_confirmation(2) = None

\* ------------------------------------------------------------------------
\* C25: mark_liquidated answers Unauthorized whenever no risk engine is set,
\* whatever the loan; it never succeeds without the authorization of the
\* stored risk engine; and a loan turns Liquidated only through a
\* mark_liquidated on that Active loan while a risk engine is registered.
\* ------------------------------------------------------------------------
Liquidated(i) == i \in DOMAIN loans /\ loans[i].status = "Liquidated"

C25_LiquidationGate ==
    /\ [](\A loan_id \in LoanIds :
            /\ lm_risk_engine = None =>
                  \A auth \in BOOLEAN : mark_liquidated_result(loan_id, auth) = "Unauthorized"
            /\ mark_liquidated_result(loan_id, FALSE) # "Ok")
    /\ [][\A i \in LoanIds : (Liquidated(i)' /\ ~Liquidated(i)) =>
                /\ lm_risk_engine # None
                /\ i \in DOMAIN loans
                /\ loans[i].status = "Active"
                /\ lm_last'.op = "mark_liquidated"
                /\ lm_last'.id = i
                /\ mark_liquidated_result(i, TRUE) = "Ok"]_vars

\* Loan 1 was liquidated by the registered risk engine while loan 2 is
\* still Active.
C25_Witness ==
    /\ lm_risk_engine = Some(RiskEngine)
    /\ Liquidated(1)
    /\ lm_last.op = "mark_liquidated"
    /\ 2 \in DOMAIN loans /\ loans[2].status = "Active"
    /\ mark_liquidated_result(2, FALSE) = "HostError"

\* ------------------------------------------------------------------------
\* C26: an escrow record, once stored, is never deleted; a step changes at
\* most one record; an existing record changes only in its status field, and
\* only by the release or refund of that very id; a record appears only by
\* create_escrow.  Every field other than status stays as created.
\* ------------------------------------------------------------------------
SameButStatus(e1, e2) == [e1 EXCEPT !.status = "-"] = [e2 EXCEPT !.status = "-"]

C26_EscrowRecordFrame ==
    /\ [](\A id \in DOMAIN escrows : escrows[id].id = id)
    /\ [][\/ escrows' = escrows
          \/ /\ DOMAIN escrows \subseteq DOMAIN escrows'
             /\ \A id \in DOMAIN escrows :
                   /\ SameButStatus(escrows'[id], escrows[id])
                   /\ escrows'[id] # escrows[id] =>
                         /\ em_last'.op \in {"release", "refund"}
                         /\ em_last'.id = id
                         /\ \A other \in DOMAIN escrows \ {id} :
                               escrows'[other] = escrows[other]
                         /\ DOMAIN escrows' = DOMAIN escrows
             /\ \A id \in DOMAIN escrows' \ DOMAIN escrows :
                   /\ em_last'.op = "create_escrow"
                   /\ em_last'.id = id
                   /\ DOMAIN escrows' = DOMAIN escrows \cup {id}
                   /\ \A other \in DOMAIN escrows : escrows'[other] = escrows[other]]_vars

\* Escrow 1 was released and escrow 2 refunded; both records still hold what
\* create_escrow stored, apart from the status.
C26_Witness ==
    /\ DOMAIN escrows = {1, 2}
    /\ \E c1, c2 \in EscrowConfigs :
          /\ escrows[1] = [NewEscrow(1, c1, escrows[1].created_at) EXCEPT !.status = "Released"]
          /\ escrows[2] = [NewEscrow(2, c2, escrows[2].created_at) EXCEPT !.status = "Refunded"]

\* ------------------------------------------------------------------------
\* C27: custody conservation.  After any sequence of successful and failed
\* create_escrow, release_funds_on_confirmation and refund_escrow calls, the
\* contract's balance of each asset is the sum of the amounts of the Active
\* escrows in that asset.
\* ------------------------------------------------------------------------
C27_CustodyConservation ==
    \A asset \in Assets :
        balances[asset][Contract] = ActiveSum(DOMAIN escrows, asset)

\* Two escrows in the same asset, the first one released: custody holds
\* exactly the amount of the second, which is still Active.
C27_Witness ==
    /\ DOMAIN escrows = {1, 2}
    /\ escrows[1].status = "Released"
    /\ escrows[2].status = "Active"
    /\ escrows[1].asset = escrows[2].asset
    /\ balances[escrows[2].asset][Contract] = escrows[2].amount
    /\ balances[escrows[1].asset][Seller] = escrows[1].amount

\* ------------------------------------------------------------------------
\* C28: within a release the steps run in the order confirm, pay seller, fee,
\* unlock collateral, persist status.  While the invocation is in progress
\* the stored status of its escrow is Active: the seller is paid before the
\* treasury is asked, the treasury has answered before the collateral is
\* unlocked, and the status turns Released only in the last step, after the
\* transfer, the treasury calls and the unlock have returned.
\* ------------------------------------------------------------------------
Kinds(effects) == [i \in 1..Len(effects) |-> effects[i].kind]

C28_ReleaseStepOrder ==
    /\ [](em_frame # None =>
            LET frame == Unwrap(em_frame)
                escrow == escrows[frame.id]
                paid == balances[escrow.asset][escrow.seller]
                            = frame.saved_bal[escrow.asset][escrow.seller] + escrow.amount
            IN  /\ escrow.status = "Active"
                /\ Confirmed(frame.confs, escrow.required_confirmation)
                /\ frame.pc \in {"pay", "fee", "unlock", "persist"}
                /\ frame.pc = "pay" => balances = frame.saved_bal /\ frame.effects = << >>
                /\ frame.pc # "pay" => paid /\ Calls(frame.effects, "transfer") # << >>
                /\ frame.pc \in {"pay", "fee"} =>
                      frame.fee_bps = None /\ Calls(frame.effects, "get_fee_bps") = << >>
                /\ frame.pc \in {"unlock", "persist"} =>
                      frame.fee_bps # None /\ Calls(frame.effects, "get_fee_bps") # << >>
                /\ frame.pc # "persist" => Calls(frame.effects, "unlock_collateral") = << >>
                /\ frame.pc = "persist" =>
                      /\ Calls(frame.effects, "unlock_collateral") # << >>
                      /\ coll_locked[escrow.collateral_id] = << FALSE >>)
    /\ [][\A id \in DOMAIN escrows :
            (escrows[id].status = "Active" /\ escrows'[id].status = "Released") =>
                /\ em_frame # None
                /\ Unwrap(em_frame).id = id
                /\ Unwrap(em_frame).pc = "persist"
                /\ em_frame' = None
                /\ balances' = balances
                /\ coll_locked' = coll_locked
                /\ SelectSeq(Kinds(em_last'.effects), LAMBDA k : k # "transfer_from")
                      \in { << "transfer", "get_fee_bps", "unlock_collateral", "store" >>,
                            << "transfer", "get_fee_bps", "deposit_fee", "unlock_collateral",
                               "store" >> }]_vars

\* A release in progress just before its last step: the seller is paid, the
\* fee deposit is recorded, the collateral is unlocked, and the stored status
\* is still Active.
C28_Witness ==
    /\ em_frame # None
    /\ Unwrap(em_frame).pc = "persist"
    /\ escrows[Unwrap(em_frame).id].status = "Active"
    /\ balances[escrows[Unwrap(em_frame).id].asset][Seller] > 0
    /\ Calls(Unwrap(em_frame).effects, "deposit_fee") # << >>
    /\ coll_locked[escrows[Unwrap(em_frame).id].collateral_id] = << FALSE >>

\* ------------------------------------------------------------------------
\* C29: for an Active escrow past its expiry_ts and an oracle answer holding
\* a matching verified confirmation, refund_escrow goes through and release
\* is refused neither for the expiry nor for the confirmation: it goes
\* through as it would before the expiry (the estimate not below the floor on
\* the cross-asset path, the treasury answering).  Whichever of the two
\* commits first pays its own receiver only, the seller or the lender, and
\* the other call then answers EscrowNotActive.
\* ------------------------------------------------------------------------
Expired(id) == escrows[id].status = "Active" /\ now > escrows[id].expiry_ts

C29_ReleaseRefundRace ==
    /\ [](\A id \in DOMAIN escrows : Expired(id) =>
            /\ refund_result(id) = "Ok"
            /\ \A confs \in ConfAnswers, fee \in TreasuryAnswers :
                  HasVerifiedMatch(confs, escrows[id].required_confirmation) =>
                      /\ release_result(id, confs, fee)
                            \in {"Ok", "SlippageExceeded", "HostError"}
                      /\ ((CrossAsset(escrows[id]) =>
                              Estimate(escrows[id].amount) >= escrows[id].min_destination_amount)
                          /\ fee # << >>) => release_result(id, confs, fee) = "Ok")
    /\ [][\/ escrows' = escrows
          \/ \A id \in DOMAIN escrows : (Expired(id) /\ escrows'[id].status # "Active") =>
                LET asset == escrows[id].asset
                    amount == escrows[id].amount
                IN  /\ refund_result(id)' = "EscrowNotActive"
                    /\ \A confs \in ConfAnswers, fee \in TreasuryAnswers :
                          release_result(id, confs, fee)' = "EscrowNotActive"
                    /\ \/ /\ escrows'[id].status = "Released"
                          /\ balances'[asset][Seller] = balances[asset][Seller] + amount
                          /\ balances'[asset][Lender] = balances[asset][Lender]
                       \/ /\ escrows'[id].status = "Refunded"
                          /\ balances'[asset][Lender] = balances[asset][Lender] + amount
                          /\ balances'[asset][Seller] = balances[asset][Seller]]_vars

\* Escrow 1 was released and escrow 2, Active and past its expiry, can now be
\* both refunded and, on a matching verified confirmation, released.
C29_Witness ==
    /\ DOMAIN escrows = {1, 2}
    /\ escrows[1].status = "Released"
    /\ Expired(2)
    /\ refund_result(2) = "Ok"
    /\ release_result(2, << << Conf(escrows[2].required_confirmation, TRUE) >> >>,
                      << 2500 >>) = "Ok"

\* ------------------------------------------------------------------------
\* C30: with the oracle's answer coming from OracleAdapter, a confirmation
\* enables release only while its oracle is registered at the time of the
\* release call: an Active escrow whose required event is confirmed only by
\* oracles that are no longer registered is refused with ConfirmationNotMet,
\* and every committed release had a matching confirmation stored by an
\* oracle registered at that moment.
\* ------------------------------------------------------------------------
MatchingOracles(id) ==
    { o \in Oracles : /\ << id, o >> \in Slots
                      /\ IsSome(oa_confs[<< id, o >>])
                      /\ Unwrap(oa_confs[<< id, o >>]).event_type
                            = escrows[id].required_confirmation
                      /\ Unwrap(oa_confs[<< id, o >>]).verified }

C30_RemovedOracleDisablesRelease ==
    /\ [](\A id \in DOMAIN escrows :
            (escrows[id].status = "Active" /\ em_config # None
                /\ MatchingOracles(id) \cap Registered = {}) =>
                release_result(id, invoke_get_confirmation(id), Some(2500))
                    = "ConfirmationNotMet")
    /\ [][\/ escrows' = escrows
          \/ \A id \in DOMAIN escrows :
                (escrows[id].status = "Active" /\ escrows'[id].status = "Released") =>
                    MatchingOracles(id) \cap Registered # {}]_vars

\* oracle1 confirmed the event type 2 that escrow 1 requires and was then
\* removed; oracle2 is registered and confirmed something else: the release
\* of the still Active escrow 1 is refused.
C30_Witness ==
    /\ 1 \in DOMAIN escrows
    /\ escrows[1].status = "Active"
    /\ escrows[1].required_confirmation = 2
    /\ MatchingOracles(1) = {"oracle1"}
    /\ Registry = << "oracle2" >>
    /\ IsSome(oa_confs[<< 1, "oracle2" >>])
    /\ release_result(1, invoke_get_confirmation(1), Some(2500)) = "ConfirmationNotMet"

\* ------------------------------------------------------------------------
\* C31: remove_oracle does not delete stored confirmations.  A stored
\* confirmation is never changed or removed; a step that changes the registry
\* leaves the confirmation storage as it is; and when an oracle that holds a
\* confirmation for an escrow is added (again), get_confirmation of that
\* escrow returns this very confirmation and a new confirm_event by that
\* oracle for that escrow answers ConfirmationAlreadyExists.
\* ------------------------------------------------------------------------
Returned(escrow_id) ==
    LET answer == get_confirmation(escrow_id)
    IN  IF answer = None THEN {} ELSE { Unwrap(answer)[k] : k \in 1..Len(Unwrap(answer)) }

C31_RemoveKeepsConfirmations ==
    [][/\ \A slot \in Slots : IsSome(oa_confs[slot]) => oa_confs'[slot] = oa_confs[slot]
       /\ Registry' # Registry => oa_confs' = oa_confs
       /\ \A slot \in Slots :
             (/\ IsSome(oa_confs[slot])
              /\ slot[2] \notin Registered
              /\ slot[2] \in Registered') =>
                 /\ Unwrap(oa_confs[slot]) \in Returned(slot[1])'
                 /\ \A event_type \in 1..4, result \in ResultInputs :
                       confirm_event_result(slot[2], slot[1], event_type, result,
                           Sign(slot[2], create_message(slot[1], event_type, result)))'
                           = "ConfirmationAlreadyExists"]_vars

\* oracle1 confirmed escrow 1 and was removed: its confirmation is still in
\* storage, is not returned while oracle2 alone is registered, and oracle1
\* can be added again.
C31_Witness ==
    /\ Registry = << "oracle2" >>
    /\ IsSome(oa_confs[<< 1, "oracle1" >>])
    /\ get_confirmation(1) = None
    /\ add_oracle_result(Admin, "oracle1") = "Ok"

ValidSignature(caller, escrow_id, event_type, result, signature) ==
    signature = Sign(caller, create_message(escrow_id, event_type, result))

get_loan_id_by_escrow(escrow_id) ==
    IF escrow_id \in DOMAIN lm_escrow_index THEN Some(lm_escrow_index[escrow_id]) ELSE None

IssuedTotal == BagCardinality(lm_events)

C34_ReverseIndexConsistent ==
    /\ [](\A escrow_id \in LoanEscrowIds, i \in LoanIds :
            get_loan_id_by_escrow(escrow_id) = Some(i)
                <=> (i \in DOMAIN loans /\ loans[i].escrow_id = escrow_id))
    /\ [][/\ IssuedTotal' > IssuedTotal =>
                /\ lm_last'.id = IssuedTotal + 1
                /\ lm_last'.id \notin DOMAIN loans
          /\ IssuedTotal' = IssuedTotal =>
                /\ DOMAIN loans' = DOMAIN loans
                /\ lm_escrow_index' = lm_escrow_index
                /\ lm_next_id' # lm_next_id => lm_last'.op = "initialize"]_vars

\* ------------------------------------------------------------------------
\* C35: issue_loan computes deadline = now + duration with checked addition.
\* When the sum exceeds the u64 range an authorized call for a fresh escrow
\* id is rejected with an error, and no step of such a call creates a loan,
\* a reverse-index entry or an id; every loan that is issued stores exactly
\* now + duration, within the u64 range.
\* ------------------------------------------------------------------------
C35_DeadlineCheckedAdd ==
    /\ [](\A escrow_id \in LoanEscrowIds, terms \in LoanTerms, duration \in Durations :
            LET answer == issue_loan_result(escrow_id, terms[1], terms[2], duration, TRUE)
            IN  /\ now + duration > U64_MAX => answer \notin {"Ok"}
                /\ (now + duration > U64_MAX /\ get_loan_id_by_escrow(escrow_id) = None)
                      => answer = "LoanNotActive"
                /\ (now + duration <= U64_MAX /\ get_loan_id_by_escrow(escrow_id) = None)
                      => answer = "Ok")
    /\ [][\/ << loans, lm_escrow_index, lm_next_id >>'
                = << loans, lm_escrow_index, lm_next_id >>
          \/ /\ \A escrow_id \in LoanEscrowIds, terms \in LoanTerms,
                   duration \in Durations :
                   now + duration > U64_MAX =>
                       ~issue_loan(escrow_id, terms[1], terms[2], duration, TRUE)
             /\ IssuedTotal' > IssuedTotal =>
                   /\ loans'[lm_last'.id].deadline <= U64_MAX
                   /\ \E duration \in Durations :
                         loans'[lm_last'.id].deadline = now + duration]_vars

\* A loan issued at timestamp 0 with the largest duration holds the largest
\* deadline; a ledger later the same duration overflows and is rejected while
\* a short one is accepted.
C35_Witness ==
    /\ now > 0
    /\ \E i \in DOMAIN loans : loans[i].deadline = U64_MAX
    /\ \E escrow_id \in LoanEscrowIds :
          /\ get_loan_id_by_escrow(escrow_id) = None
          /\ issue_loan_result(escrow_id, 1000, 500, U64_MAX, TRUE) = "LoanNotActive"
          /\ issue_loan_result(escrow_id, 1000, 500, 1, TRUE) = "Ok"

\* ------------------------------------------------------------------------
\* Claims about the contracts' arithmetic (checked under SpecArith)
\* ------------------------------------------------------------------------
\* C36: arithmetic never silently wraps.  The path-payment estimate
\* amount * rate / 1_000_000 fails (PathPaymentFailed, the None of the
\* estimate) when the product overflows i128; a repayment is never accepted
\* against a total whose interest product or sum overflowed; and no fee is
\* computed from an overflowed product.
C36_NoSilentWrap ==
    /\ ar_last.op = "estimate_path_payment" =>
          (checked_mul(ar_last.a, ar_last.b) = None => ar_last.value = None)
    /\ lm_last.op = "repay_loan" =>
          /\ checked_mul(loans[lm_last.id].amount, loans[lm_last.id].interest_rate) # None
          /\ ~AddOverflows(loans[lm_last.id].amount,
                           TruncDiv(loans[lm_last.id].amount * loans[lm_last.id].interest_rate,
                                    BPS_SCALE))
    /\ (ar_last.op = "fee_amount" /\ ar_last.value # None) =>
          checked_mul(ar_last.a, ar_last.b) # None

\* The part of C36 about the path-payment estimate: an overflowing product
\* gives PathPaymentFailed, any other the truncated quotient.
C36_EstimateChecked ==
    ar_last.op = "estimate_path_payment" =>
        IF checked_mul(ar_last.a, ar_last.b) = None THEN ar_last.value = None
        ELSE ar_last.value = Some(TruncDiv(ar_last.a * ar_last.b, RATE_SCALE))

\* An estimate on an overflowing product has been evaluated.
C36_EstimateWitness ==
    /\ ar_last.op = "estimate_path_payment"
    /\ checked_mul(ar_last.a, ar_last.b) = None
    /\ ar_last.value = None

\* ------------------------------------------------------------------------
\* Claims about the event indexer (checked under SpecIndexer)
\* ------------------------------------------------------------------------
\* The persisted cursor: last_processed_ledger of the state file, 0 without one.
Persisted == UnwrapOr(ix_state_file, 0)

\* C37: after k >= 1 consecutive failed poll cycles the loop sleeps
\* min(10 * 2^min(k, 6), 60) seconds, that is 20, 40, 60, 60, ..., never more
\* than 60; after a successful cycle the failure count is 0 and the sleep is
\* the base interval of 10 seconds.
C37_Backoff ==
    /\ [](/\ ix_sleep <= 60
          /\ ix_failures >= 1 =>
                /\ ix_last.result = "Err"
                /\ ix_sleep = Min(10 * Pow2(Min(ix_failures, 6)), 60)
                /\ ix_sleep = (IF ix_failures = 1 THEN 20
                               ELSE IF ix_failures = 2 THEN 40 ELSE 60)
          /\ ix_last.result = "Ok" => (ix_failures = 0 /\ ix_sleep = 10))
    /\ [][\/ << ix_failures, ix_sleep, ix_last >>' = << ix_failures, ix_sleep, ix_last >>
          \/ ix_last'.result = "start"
          \/ ix_last'.result = "Ok" /\ ix_failures' = 0 /\ ix_sleep' = 10
          \/ ix_last'.result = "Err" /\ ix_failures' = ix_failures + 1]_vars

\* Three cycles in a row have failed: the doubled interval of 80 seconds is
\* cut to 60.
C37_Witness ==
    /\ ix_failures = 3
    /\ ix_last.result = "Err"
    /\ ix_sleep = 60

\* C38: a poll cycle never decreases the in-memory cursor, and the persisted
\* cursor never decreases; a cycle that fails before the mirror is persisted
\* leaves both unchanged; a cycle that completes with from_ledger <=
\* latest_ledger leaves the cursor >= from_ledger, strictly above its old value.
C38_CursorMonotone ==
    /\ [](/\ Persisted <= ix_cursor
          /\ \A fail_at \in {"getLatestLedger", "getEvents", "persist_mirror_db"} :
                /\ poll_once(fail_at).cursor = ix_cursor
                /\ poll_once(fail_at).state_file = ix_state_file
                /\ poll_once(fail_at).mirror_file = ix_mirror_file
          /\ \A fail_at \in FailurePoints :
                /\ poll_once(fail_at).cursor >= ix_cursor
                /\ UnwrapOr(poll_once(fail_at).state_file, 0) >= Persisted
          /\ ix_cursor + 1 <= Len(ix_chain) =>
                /\ poll_once("none").result = "Ok"
                /\ poll_once("none").cursor >= ix_cursor + 1
                /\ poll_once("none").cursor > ix_cursor
                /\ poll_once("none").state_file = Some(poll_once("none").cursor))
    /\ [][/\ Persisted' >= Persisted
          /\ ix_last'.result # "start" => ix_cursor' >= ix_cursor
          /\ (ix_last'.result = "Ok" /\ ix_cursor + 1 <= Len(ix_chain)
                 /\ ix_chain' = ix_chain)
                => ix_cursor' > ix_cursor]_vars

\* A complete cycle has moved the cursor past its from_ledger while ledgers
\* were pending, after an earlier advance.
C38_Witness ==
    /\ ix_last.result = "Ok"
    /\ ix_last.from_ledger >= 2
    /\ ix_last.from_ledger <= Len(ix_chain)
    /\ ix_cursor >= ix_last.from_ledger
    /\ ix_state_file = Some(ix_cursor)

\* The events of the chain that poll_once hands to one of its process_* calls.
Monitored(raw) ==
    LET parsed == ParseAll(<< raw >>)
    IN  collateral_events(parsed) \o escrow_events(parsed) \o loan_events(parsed)
            \o governance_events(parsed) # << >>

\* The persisted mirror holds the event.
InMirror(raw) ==
    /\ ix_mirror_file # None
    /\ LET mirror == Unwrap(ix_mirror_file)
           event == Unwrap(parse_event(raw))
       IN  \/ entity_key(event, "collateral") \in DOMAIN mirror.collateral
           \/ entity_key(event, "escrow") \in DOMAIN mirror.escrows
           \/ entity_key(event, "loan") \in DOMAIN mirror.loans
           \/ record_exists(mirror.governance_audit_log, to_record(event))

\* C39: whenever the cursor stands at L, every event of a monitored contract
\* in a ledger <= L has been applied to the mirror; none is skipped, also when
\* a fetch is cut at the per-cycle event cap or spans several pages.
C39_AtLeastOnce ==
    \A n \in 1..Len(ix_chain) :
        n <= ix_cursor =>
            \A i \in 1..Len(ix_chain[n]) :
                Monitored(ix_chain[n][i]) => InMirror(ix_chain[n][i])

\* The broadcast-log key of a record.
LogKey(record) == << record.tx_hash, record.ledger, record.event_name >>

\* The escrow events of ledger n as poll_once hands them to process_escrow_events.
EscrowEventsOf(n) == escrow_events(ParseAll(ix_chain[n]))

\* C40: applying the same escrow events twice gives the same mirror as
\* applying them once; the broadcast log never holds two records that agree
\* on (tx_hash, ledger, event_name), and of two events that differ in that
\* key both are kept.
C40_IdempotentReprocessing ==
    LET mirror == UnwrapOr(ix_mirror_file, DefaultMirror)
        log == mirror.ws_broadcast_log
    IN  /\ \A n \in 1..Len(ix_chain) :
              /\ process_escrow_events(mirror, EscrowEventsOf(n) \o EscrowEventsOf(n))
                    = process_escrow_events(mirror, EscrowEventsOf(n))
              /\ process_escrow_events(process_escrow_events(mirror, EscrowEventsOf(n)),
                                       EscrowEventsOf(n))
                    = process_escrow_events(mirror, EscrowEventsOf(n))
        /\ \A i, j \in 1..Len(log) : LogKey(log[i]) = LogKey(log[j]) => i = j
        /\ \A key \in DOMAIN mirror.escrows :
              \E i \in 1..Len(log) : LogKey(log[i]) = LogKey(mirror.escrows[key])

\* The mirror holds two escrow events of one transaction with one broadcast
\* record between them, next to broadcast records of another key, and the
\* next cycle fetches a ledger whose events the mirror already holds.
C40_Witness ==
    /\ ix_mirror_file # None
    /\ LET mirror == Unwrap(ix_mirror_file)
           log == mirror.ws_broadcast_log
       IN  /\ \E k1, k2 \in DOMAIN mirror.escrows :
                 /\ k1 # k2
                 /\ LogKey(mirror.escrows[k1]) = LogKey(mirror.escrows[k2])
           /\ \E i, j \in 1..Len(log) :
                 /\ log[i].ledger = log[j].ledger
                 /\ log[i].tx_hash # log[j].tx_hash
           /\ ix_cursor + 1 <= Len(ix_chain)
           /\ \E i \in 1..Len(ix_chain[ix_cursor + 1]) : InMirror(ix_chain[ix_cursor + 1][i])

====
